---- MODULE Spec2Model ----
(***************************************************************************)
(* Model of src/components/magic_eraser.py: the mask-based selection and   *)
(* editing engine (MagicEraser, AdvancedSelectionTools).                   *)
(*                                                                         *)
(* An image or a numpy array is a record [mode, w, h, px], px a function   *)
(* from the pixel coordinates <<x, y>> (0-based, x the column) to either   *)
(* an 8-bit sample (mode "L") or a tuple of 8-bit samples ("RGB", "RGBA"). *)
(* uint8 arithmetic is kept at its width: every uint8 result is % 256.     *)
(***************************************************************************)
EXTENDS Integers, Sequences, FiniteSets, TLC

VARIABLES
    image,      \* the image handed to magic_select / erase_selection
    self,       \* the MagicEraser object's fields
    pc,         \* position inside the magic_select / erase_selection session
    args,       \* the arguments of the running magic_select call
    locals,     \* tolerance, contiguous and target_color after lines 35-46
    stack,      \* _flood_fill_select: the explicit stack
    visited,    \* _flood_fill_select: visited[y, x]
    mask,       \* _flood_fill_select: mask[y, x]
    raw,        \* the mask before anti-alias and feather
    aa,         \* the mask after the anti-alias pass
    sel,        \* the mask magic_select returned
    out,        \* the image erase_selection returned
    arg,        \* inputs of the pure-function specifications
    call,       \* the calls made so far on arg
    ret         \* the value the last call returned

vars == <<image, self, pc, args, locals, stack, visited, mask, raw, aa, sel, out,
          arg, call, ret>>

selectVars ==
    <<image, self, pc, args, locals, stack, visited, mask, raw, aa, sel, out>>
pureVars == <<arg, call, ret>>

----------------------------------------------------------------------------
(* Bounds of the model *)

\* image width and height of the selection session
W == 2
H == 2
\* a caller-chosen tolerance below the default
SmallTol == 5

(* Program constants *)
DefaultTolerance == 32
DefaultFeatherRadius == 1
EraseThreshold == 128

None == <<>>
Some(v) == <<v>>
IsNone(o) == o = <<>>
Val(o) == o[1]

----------------------------------------------------------------------------
(* Arrays and images *)

Pix(w, h) == (0 .. w - 1) \X (0 .. h - 1)

Arr(mode, w, h, f) == [mode |-> mode, w |-> w, h |-> h, px |-> f]

\* Image.new('L', size, v)
ImageNewL(w, h, v) == Arr("L", w, h, [p \in Pix(w, h) |-> v])

\* Image.convert: RGB <-> RGBA adds an opaque alpha or drops the alpha
convert(img, mode) ==
    IF img.mode = mode THEN img
    ELSE IF mode = "RGBA" /\ img.mode = "RGB"
    THEN Arr("RGBA", img.w, img.h,
             [p \in Pix(img.w, img.h) |-> Append(img.px[p], 255)])
    ELSE IF mode = "RGBA" /\ img.mode = "L"
    THEN Arr("RGBA", img.w, img.h,
             [p \in Pix(img.w, img.h) |-> <<img.px[p], img.px[p], img.px[p], 255>>])
    ELSE IF mode = "RGB" /\ img.mode = "RGBA"
    THEN Arr("RGB", img.w, img.h,
             [p \in Pix(img.w, img.h) |-> SubSeq(img.px[p], 1, 3)])
    ELSE IF mode = "RGB" /\ img.mode = "L"
    THEN Arr("RGB", img.w, img.h,
             [p \in Pix(img.w, img.h) |-> <<img.px[p], img.px[p], img.px[p]>>])
    ELSE img

----------------------------------------------------------------------------
(* Colour distance, as numpy computes it on uint8 arrays *)

\* uint8 - uint8 and uint8 ** 2 stay uint8: both wrap modulo 256
U8Sub(a, b) == (a - b) % 256
U8Sq(a) == (a * a) % 256

\* np.sum((current_color - target_color) ** 2): the sum is taken in uint64
color_distance_sq(c, t) ==
    U8Sq(U8Sub(c[1], t[1])) + U8Sq(U8Sub(c[2], t[2])) + U8Sq(U8Sub(c[3], t[3]))

\* np.sqrt(s) <= tolerance, for an integer sum s >= 0
sqrt_le(s, tolerance) == tolerance >= 0 /\ s <= tolerance * tolerance

\* color_distance <= tolerance
similar(c, t, tolerance) == sqrt_le(color_distance_sq(c, t), tolerance)

----------------------------------------------------------------------------
(* cv2.GaussianBlur on a uint8 array, 3x3 kernel, default border             *)
(* (BORDER_REFLECT_101): a separable 3-tap kernel <<side, centre>> in 8-bit  *)
(* fixed point (side + centre + side = 256), rows first, then columns,      *)
(* rounded to the nearest integer.                                          *)

Reflect101(i, n) ==
    IF n = 1 THEN 0
    ELSE IF i < 0 THEN -i
    ELSE IF i >= n THEN 2 * (n - 1) - i
    ELSE i

\* the row pass at <<x, y>>, in 1/256 units
BlurRow(m, kernel, x, y) ==
    kernel[1] * m.px[<<Reflect101(x - 1, m.w), y>>]
        + kernel[2] * m.px[<<x, y>>]
        + kernel[1] * m.px[<<Reflect101(x + 1, m.w), y>>]

\* the column pass over the row pass at <<x, y>>, in 1/65536 units
BlurCol(m, kernel, x, y) ==
    kernel[1] * BlurRow(m, kernel, x, Reflect101(y - 1, m.h))
        + kernel[2] * BlurRow(m, kernel, x, y)
        + kernel[1] * BlurRow(m, kernel, x, Reflect101(y + 1, m.h))

GaussianBlur(m, kernel) ==
    Arr("L", m.w, m.h,
        [p \in Pix(m.w, m.h) |->
            (BlurCol(m, kernel, p[1], p[2]) + 32768) \div 65536])

\* the kernel of cv2.GaussianBlur(mask, (3, 3), 0.5)
AntiAliasKernel == <<27, 202>>
\* the kernel of cv2.GaussianBlur(mask, (3, 3), 1 / 3)
FeatherKernel == <<3, 250>>

_apply_anti_aliasing(m) == GaussianBlur(m, AntiAliasKernel)

\* only radius 0 and the 3x3 kernel of radius 1 are modelled
_apply_feathering(m, radius) ==
    IF radius <= 0 THEN m ELSE GaussianBlur(m, FeatherKernel)

----------------------------------------------------------------------------
(* MagicEraser *)

\* MagicEraser.__init__
MagicEraserInit ==
    [tolerance |-> DefaultTolerance, contiguous |-> TRUE,
     anti_alias |-> TRUE, feather_radius |-> DefaultFeatherRadius]

\* tolerance = tolerance or self.tolerance
EffectiveTolerance(tolerance, s) ==
    IF IsNone(tolerance) \/ Val(tolerance) = 0 THEN s.tolerance ELSE Val(tolerance)

\* contiguous = contiguous if contiguous is not None else self.contiguous
EffectiveContiguous(contiguous, s) ==
    IF IsNone(contiguous) THEN s.contiguous ELSE Val(contiguous)

\* mutant: the bounds test without its two negative-coordinate tests
OutOfBoundsUpperOnly(point, width, height) ==
    point[1] >= width \/ point[2] >= height

\* the bounds test of magic_select, line 43
OutOfBounds(point, width, height) ==
    point[1] >= width \/ point[2] >= height \/ point[1] < 0 \/ point[2] < 0

_global_color_select(img_array, target_color, tolerance) ==
    Arr("L", img_array.w, img_array.h,
        [p \in Pix(img_array.w, img_array.h) |->
            IF similar(img_array.px[p], target_color, tolerance) THEN 255 ELSE 0])

\* lines 59-60 of magic_select
AntiAliasPass(m, s) == IF s.anti_alias THEN _apply_anti_aliasing(m) ELSE m

\* lines 63-64 of magic_select
FeatherPass(m, s) ==
    IF s.feather_radius > 0 THEN _apply_feathering(m, s.feather_radius) ELSE m

\* mutant: the diagonal neighbours are pushed as well
Neighbours8(x, y) ==
    << <<x + 1, y>>, <<x - 1, y>>, <<x, y + 1>>, <<x, y - 1>>,
       <<x + 1, y + 1>>, <<x - 1, y - 1>>, <<x + 1, y - 1>>, <<x - 1, y + 1>> >>

\* mutant: only the right and the lower neighbour are pushed
NeighboursForward(x, y) == << <<x + 1, y>>, <<x, y + 1>> >>

\* stack.extend([(x+1, y), (x-1, y), (x, y+1), (x, y-1)])
\* mutant: the pixel itself is pushed again with its neighbours
NeighboursAndSelf(x, y) ==
    << <<x, y>>, <<x + 1, y>>, <<x - 1, y>>, <<x, y + 1>>, <<x, y - 1>> >>

Neighbours(x, y) == << <<x + 1, y>>, <<x - 1, y>>, <<x, y + 1>>, <<x, y - 1>> >>

\* mutant: the mask test is >= 128
SelectedGe(v) == v >= EraseThreshold

\* mask_array > 128
Selected(v) == v > EraseThreshold

\* an exception raised by numpy leaves the call without a result
Raised == [mode |-> "error", w |-> 0, h |-> 0, px |-> <<>>]
IsRaised(r) == r.mode = "error"

\* numpy broadcasting of one axis: equal lengths, or one of them is 1;
\* 0 stands for "operands could not be broadcast together"
BroadcastDim(a, b) ==
    IF a = b THEN a ELSE IF a = 1 THEN b ELSE IF b = 1 THEN a ELSE 0

\* the sample of m that broadcasting pairs with position p
BroadcastAt(m, p) ==
    m.px[<<IF m.w = 1 THEN 0 ELSE p[1], IF m.h = 1 THEN 0 ELSE p[2]>>]

\* the modes of erase_selection that write a replacement colour
IsPaintMode(erase_mode) ==
    \/ erase_mode.kind = "str" /\ erase_mode.val \in {"white", "black"}
    \/ erase_mode.kind = "tuple" /\ Len(erase_mode.val) \in {3, 4}

\* mutant: a 3-tuple is padded with alpha 0
ReplacementColourPadZero(erase_mode) ==
    IF erase_mode.kind = "str" /\ erase_mode.val = "white"
    THEN <<255, 255, 255, 255>>
    ELSE IF erase_mode.kind = "str" /\ erase_mode.val = "black"
    THEN <<0, 0, 0, 255>>
    ELSE IF Len(erase_mode.val) = 3
    THEN Append(erase_mode.val, 0)
    ELSE erase_mode.val

\* the four samples written in a paint mode: [255, 255, 255, 255],
\* [0, 0, 0, 255], erase_mode + (255,) for a 3-tuple, erase_mode for a 4-tuple
ReplacementColour(erase_mode) ==
    IF erase_mode.kind = "str" /\ erase_mode.val = "white"
    THEN <<255, 255, 255, 255>>
    ELSE IF erase_mode.kind = "str" /\ erase_mode.val = "black"
    THEN <<0, 0, 0, 255>>
    ELSE IF Len(erase_mode.val) = 3
    THEN Append(erase_mode.val, 255)
    ELSE erase_mode.val

\* erase_selection; erase_mode is [kind |-> "str" or "tuple", val |-> ...].
\* 'transparent' goes through np.where, which broadcasts the mask against the
\* alpha plane and must fit the plane it is assigned to; the paint modes index
\* img_array with the boolean mask, which must have the shape of the image;
\* any other mode never looks at the mask.
erase_selection(img, m, erase_mode) ==
    LET rgba == convert(img, "RGBA")
        mask_array == convert(m, "L")
    IN  IF erase_mode.kind = "str" /\ erase_mode.val = "transparent"
        THEN IF /\ BroadcastDim(mask_array.w, rgba.w) = rgba.w
                /\ BroadcastDim(mask_array.h, rgba.h) = rgba.h
             THEN Arr("RGBA", rgba.w, rgba.h,
                      [p \in Pix(rgba.w, rgba.h) |->
                          IF Selected(BroadcastAt(mask_array, p))
                          THEN [rgba.px[p] EXCEPT ![4] = 0]
                          ELSE rgba.px[p]])
             ELSE Raised
        ELSE IF IsPaintMode(erase_mode)
        THEN IF mask_array.w = rgba.w /\ mask_array.h = rgba.h
             THEN Arr("RGBA", rgba.w, rgba.h,
                      [p \in Pix(rgba.w, rgba.h) |->
                          IF Selected(mask_array.px[p])
                          THEN ReplacementColour(erase_mode)
                          ELSE rgba.px[p]])
             ELSE Raised
        ELSE rgba

----------------------------------------------------------------------------
(* The selection session: construct a MagicEraser, set its fields, call     *)
(* magic_select on an image, then erase_selection with the returned mask    *)
(* (the caller at lines 1086-1095).                                         *)

Black == <<0, 0, 0>>
Dark == <<7, 0, 0>>
Palette == {Black, Dark}

Images == {Arr("RGB", W, H, f) : f \in [Pix(W, H) -> Palette]}
Points == (-1 .. W) \X (-1 .. H)
ToleranceArgs == {None, Some(0), Some(SmallTol)}
\* contiguous left to the object's field, or overridden by the caller
ContiguousArgs == {None, Some(FALSE)}
\* the widgets' defaults for the two smoothing passes
AntiAliasChoices == {TRUE}
FeatherRadii == {DefaultFeatherRadius}

NoArr == Arr("L", 0, 0, <<>>)
NoArgs == [point |-> <<0, 0>>, tolerance |-> None, contiguous |-> None]
NoLocals == [tolerance |-> 0, contiguous |-> FALSE, target_color |-> <<>>]
Transparent == [kind |-> "str", val |-> "transparent"]

PureIdle == arg = <<>> /\ call = <<>> /\ ret = <<>>

InitSelect ==
    /\ image \in Images
    /\ self = MagicEraserInit
    /\ pc = "idle"
    /\ args = NoArgs
    /\ locals = NoLocals
    /\ stack = <<>>
    /\ visited = <<>>
    /\ mask = NoArr
    /\ raw = NoArr
    /\ aa = NoArr
    /\ sel = NoArr
    /\ out = NoArr
    /\ PureIdle

\* magic_eraser.tolerance = ...; .contiguous = ...; .anti_alias = ...;
\* .feather_radius = ... on a freshly constructed object
Configure(tolerance, contiguous, anti_alias, feather) ==
    /\ pc = "idle"
    /\ self = MagicEraserInit
    /\ self' = [tolerance |-> tolerance, contiguous |-> contiguous,
                anti_alias |-> anti_alias, feather_radius |-> feather]
    /\ self' # self
    /\ UNCHANGED <<image, pc, args, locals, stack, visited, mask, raw, aa, sel, out>>
    /\ UNCHANGED pureVars

\* numpy indexing: a negative index counts from the end
NpIndex(i, n) == IF i < 0 THEN i + n ELSE i

\* magic_select up to the start of the flood fill, to the global selection,
\* or to its return when the point is out of bounds
MagicSelectCall(point, tolerance, contiguous) ==
    /\ pc = "idle"
    /\ args' = [point |-> point, tolerance |-> tolerance, contiguous |-> contiguous]
    /\ LET tol == EffectiveTolerance(tolerance, self)
           contig == EffectiveContiguous(contiguous, self)
           img_array == convert(image, "RGB")
           width == img_array.w
           height == img_array.h
       IN  IF OutOfBounds(point, width, height)
           THEN /\ sel' = ImageNewL(image.w, image.h, 0)
                /\ pc' = "done"
                /\ locals' = [tolerance |-> tol, contiguous |-> contig,
                              target_color |-> <<>>]
                /\ UNCHANGED <<stack, visited, mask, raw, aa>>
           ELSE LET target_color ==
                        img_array.px[<<NpIndex(point[1], width),
                                       NpIndex(point[2], height)>>]
                IN  /\ locals' = [tolerance |-> tol, contiguous |-> contig,
                                  target_color |-> target_color]
                    /\ IF contig
                       THEN /\ stack' = <<point>>
                            /\ visited' = [p \in Pix(width, height) |-> FALSE]
                            /\ mask' = ImageNewL(width, height, 0)
                            /\ pc' = "fill"
                            /\ UNCHANGED <<raw, aa, sel>>
                       ELSE /\ raw' = _global_color_select(img_array, target_color, tol)
                            /\ pc' = "antialias"
                            /\ UNCHANGED <<stack, visited, mask, aa, sel>>
    /\ UNCHANGED <<image, self, out>>
    /\ UNCHANGED pureVars

\* one iteration of the while loop of _flood_fill_select
FloodStep ==
    /\ pc = "fill"
    /\ stack # <<>>
    /\ LET top == stack[Len(stack)]
           rest == SubSeq(stack, 1, Len(stack) - 1)
           x == top[1]
           y == top[2]
           img_array == convert(image, "RGB")
       IN  IF x < 0 \/ x >= img_array.w \/ y < 0 \/ y >= img_array.h
           THEN /\ stack' = rest
                /\ UNCHANGED <<visited, mask>>
           ELSE IF visited[top]
           THEN /\ stack' = rest
                /\ UNCHANGED <<visited, mask>>
           ELSE IF similar(img_array.px[top], locals.target_color, locals.tolerance)
           THEN /\ visited' = [visited EXCEPT ![top] = TRUE]
                /\ mask' = [mask EXCEPT !.px[top] = 255]
                /\ stack' = rest \o Neighbours(x, y)
           ELSE /\ stack' = rest
                /\ UNCHANGED <<visited, mask>>
    /\ UNCHANGED <<image, self, pc, args, locals, raw, aa, sel, out>>
    /\ UNCHANGED pureVars

\* the loop ends: _flood_fill_select returns its mask to magic_select
FloodReturn ==
    /\ pc = "fill"
    /\ stack = <<>>
    /\ raw' = mask
    /\ pc' = "antialias"
    /\ UNCHANGED <<image, self, args, locals, stack, visited, mask, aa, sel, out>>
    /\ UNCHANGED pureVars

\* magic_select, lines 58-60
AntiAliasStep ==
    /\ pc = "antialias"
    /\ aa' = AntiAliasPass(raw, self)
    /\ pc' = "feather"
    /\ UNCHANGED <<image, self, args, locals, stack, visited, mask, raw, sel, out>>
    /\ UNCHANGED pureVars

\* magic_select, lines 62-66: the feather pass and the return
FeatherStep ==
    /\ pc = "feather"
    /\ sel' = FeatherPass(aa, self)
    /\ pc' = "done"
    /\ UNCHANGED <<image, self, args, locals, stack, visited, mask, raw, aa, out>>
    /\ UNCHANGED pureVars

\* result = magic_eraser.erase_selection(image, mask)
EraseCall ==
    /\ pc = "done"
    /\ out' = erase_selection(image, sel, Transparent)
    /\ pc' = "erased"
    /\ UNCHANGED <<image, self, args, locals, stack, visited, mask, raw, aa, sel>>
    /\ UNCHANGED pureVars

NextSelect ==
    \/ \E t \in {SmallTol, DefaultTolerance}, c \in BOOLEAN,
          a \in AntiAliasChoices, f \in FeatherRadii : Configure(t, c, a, f)
    \/ \E p \in Points, t \in ToleranceArgs, c \in ContiguousArgs :
          MagicSelectCall(p, t, c)
    \/ FloodStep
    \/ FloodReturn
    \/ AntiAliasStep
    \/ FeatherStep
    \/ EraseCall

SpecSelect == InitSelect /\ [][NextSelect]_vars

----------------------------------------------------------------------------
(* Properties of the selection session *)

Returned == pc \in {"done", "erased"}
InBounds ==
    /\ 0 <= args.point[1] /\ args.point[1] < image.w
    /\ 0 <= args.point[2] /\ args.point[2] < image.h
Adjacent4(p, q) ==
    \/ (p[1] = q[1] /\ (p[2] = q[2] + 1 \/ q[2] = p[2] + 1))
    \/ (p[2] = q[2] /\ (p[1] = q[1] + 1 \/ q[1] = p[1] + 1))

\* the pixels that pass the similarity test against the seed colour
Passing ==
    {p \in Pix(image.w, image.h) :
        similar(image.px[p], image.px[args.point], locals.tolerance)}

RECURSIVE Closure(_)
Closure(S) ==
    LET T == S \cup {q \in Passing : \E p \in S : Adjacent4(p, q)}
    IN  IF T = S THEN S ELSE Closure(T)

\* the pixels joined to the seed by a 4-connected path of passing pixels
Component == Closure({args.point} \cap Passing)

\* C1: in contiguous mode the raw mask is 255 exactly on the 4-connected
\* component of the seed among the pixels passing the similarity test, 0
\* elsewhere, and the seed is selected.
C1_RawMaskIsSeedComponent ==
    (Returned /\ InBounds /\ locals.contiguous) =>
        /\ raw.px[args.point] = 255
        /\ \A p \in Pix(image.w, image.h) :
              raw.px[p] = IF p \in Component THEN 255 ELSE 0

\* a passing pixel that only touches the component diagonally stays out
C1_Witness ==
    /\ Returned /\ InBounds /\ locals.contiguous
    /\ \E q \in Passing : raw.px[q] = 0
    /\ raw.px[args.point] = 255

\* C3: with tolerance=0 in contiguous mode only pixels of exactly the seed's
\* colour are selected (the statement of the claim, which the code violates).
C3_ZeroToleranceExactColour ==
    (Returned /\ InBounds /\ locals.contiguous /\ args.tolerance = Some(0)) =>
        \A p \in Pix(image.w, image.h) :
            raw.px[p] = 255 => image.px[p] = image.px[args.point]

\* C4: a seed outside the image gives an all-zero W x H single-channel mask,
\* in both modes and for every tolerance.
C4_OutOfBoundsSeedAllZero ==
    (Returned /\ ~InBounds) => sel = ImageNewL(image.w, image.h, 0)

C4_Witness ==
    /\ Returned /\ ~InBounds /\ ~locals.contiguous
    /\ args.point[1] < 0
    /\ sel = ImageNewL(image.w, image.h, 0)

Uniform == \A p, q \in Pix(image.w, image.h) : image.px[p] = image.px[q]

\* C5: on a uniform image, contiguous magic_select with the default smoothing
\* passes returns an all-255 mask and erasing with it clears every alpha.
C5_UniformImageFullyErased ==
    (pc = "erased" /\ Uniform /\ InBounds /\ locals.contiguous
        /\ self.anti_alias /\ self.feather_radius = DefaultFeatherRadius) =>
        /\ \A p \in Pix(image.w, image.h) : sel.px[p] = 255
        /\ out.mode = "RGBA"
        /\ \A p \in Pix(image.w, image.h) : out.px[p][4] = 0

C5_Witness ==
    /\ pc = "erased" /\ Uniform /\ InBounds /\ locals.contiguous
    /\ self.anti_alias /\ self.feather_radius = DefaultFeatherRadius
    /\ args.point = <<W - 1, H - 1>>
    /\ \A p \in Pix(image.w, image.h) : out.px[p][4] = 0

----------------------------------------------------------------------------
(* The colour test on its own: two colours and a tolerance                  *)

SelectIdle ==
    /\ image = NoArr
    /\ self = MagicEraserInit
    /\ pc = "none"
    /\ args = NoArgs
    /\ locals = NoLocals
    /\ stack = <<>>
    /\ visited = <<>>
    /\ mask = NoArr
    /\ raw = NoArr
    /\ aa = NoArr
    /\ sel = NoArr
    /\ out = NoArr

ChannelValues == {0, 16, 255}
Colours == ChannelValues \X ChannelValues \X ChannelValues
Tolerances == {0, SmallTol, DefaultTolerance}

\* a two-pixel image: the seed colour t at (0, 0), the colour c next to it
Pair(t, c) == Arr("RGB", 2, 1, (<<0, 0>> :> t) @@ (<<1, 0>> :> c))

InitColor ==
    /\ SelectIdle
    /\ arg \in [c : Colours, t : Colours, tolerance : Tolerances]
    /\ call = <<>>
    /\ ret = <<>>

\* lines 88-91: the test _flood_fill_select makes on a popped pixel
FloodCompare ==
    /\ call = <<>>
    /\ call' = <<"flood">>
    /\ ret' = similar(arg.c, arg.t, arg.tolerance)
    /\ UNCHANGED arg
    /\ UNCHANGED selectVars

\* _global_color_select on the two-pixel image
GlobalSelect ==
    /\ call = <<>>
    /\ call' = <<"global">>
    /\ ret' = _global_color_select(Pair(arg.t, arg.c), arg.t, arg.tolerance)
    /\ UNCHANGED arg
    /\ UNCHANGED selectVars

NextColor == FloodCompare \/ GlobalSelect

SpecColor == InitColor /\ [][NextColor]_vars

\* the squared Euclidean distance over the integers
EuclidSq(c, t) ==
    (c[1] - t[1]) * (c[1] - t[1]) + (c[2] - t[2]) * (c[2] - t[2])
        + (c[3] - t[3]) * (c[3] - t[3])

\* C2: the distance compared against the tolerance is the true Euclidean
\* distance, in the flood fill and in the global mode (the statement of the
\* claim, which the code violates).
C2_DistanceIsEuclidean ==
    /\ call = <<"flood">> =>
          (ret <=> EuclidSq(arg.c, arg.t) <= arg.tolerance * arg.tolerance)
    /\ call = <<"global">> =>
          \A p \in Pix(2, 1) :
              ret.px[p] = IF EuclidSq(Pair(arg.t, arg.c).px[p], arg.t)
                                <= arg.tolerance * arg.tolerance
                          THEN 255 ELSE 0

----------------------------------------------------------------------------
(* erase_selection on its own: any image, any mask, any mode                *)

\* width of the one-row images and masks
EW == 2

OpaquePixels == {<<1, 2, 3>>, <<200, 100, 50>>}
AlphaPixels == {<<1, 2, 3, 255>>, <<1, 2, 3, 0>>, <<200, 100, 50, 77>>}
EraseMaskValues == {0, EraseThreshold, EraseThreshold + 1, 255}
EraseImages ==
    {Arr("RGB", EW, 1, f) : f \in [Pix(EW, 1) -> OpaquePixels]}
        \cup {Arr("RGBA", EW, 1, f) : f \in [Pix(EW, 1) -> AlphaPixels]}
EraseMasks == {Arr("L", EW, 1, f) : f \in [Pix(EW, 1) -> EraseMaskValues]}
EraseModes ==
    {[kind |-> "str", val |-> v] : v \in {"transparent", "white", "black", "blur"}}
        \cup {[kind |-> "tuple", val |-> v] :
                 v \in {<<10, 20, 30>>, <<10, 20, 30, 40>>, <<10, 20>>}}

InitErase ==
    /\ SelectIdle
    /\ arg \in [image : EraseImages, mask : EraseMasks]
    /\ call = <<>>
    /\ ret = <<>>

EraseSelection(erase_mode) ==
    /\ call = <<>>
    /\ call' = <<erase_mode>>
    /\ ret' = erase_selection(arg.image, arg.mask, erase_mode)
    /\ UNCHANGED arg
    /\ UNCHANGED selectVars

NextErase == \E m \in EraseModes : EraseSelection(m)

SpecErase == InitErase /\ [][NextErase]_vars

\* C10: 'transparent' clears the alpha of exactly the pixels whose mask value
\* is > 128 and keeps their R, G, B; a pixel whose mask value is <= 128 keeps
\* all four channels, in every mode.
C10_EraseFrame ==
    call # <<>> =>
        LET before == convert(arg.image, "RGBA")
        IN  \A p \in Pix(arg.image.w, arg.image.h) :
              /\ arg.mask.px[p] <= 128 => ret.px[p] = before.px[p]
              /\ (call[1] = Transparent /\ arg.mask.px[p] > 128) =>
                    /\ ret.px[p][4] = 0
                    /\ SubSeq(ret.px[p], 1, 3) = SubSeq(before.px[p], 1, 3)

\* one pixel at exactly 128 is kept, one at 129 loses its alpha only
C10_Witness ==
    /\ call = <<Transparent>>
    /\ arg.mask.px[<<0, 0>>] = 128
    /\ arg.mask.px[<<1, 0>>] = 129
    /\ arg.image.mode = "RGBA"
    /\ ret.px[<<0, 0>>] = <<200, 100, 50, 77>>
    /\ arg.image.px[<<1, 0>>] = <<200, 100, 50, 77>>
    /\ ret.px[<<1, 0>>] = <<200, 100, 50, 0>>

\* the modes the replacement-colour claims are about, and the colour named
PaintCall ==
    /\ call # <<>>
    /\ \/ call[1].kind = "str" /\ call[1].val \in {"white", "black"}
       \/ call[1].kind = "tuple" /\ Len(call[1].val) \in {3, 4}

NamedRGB(erase_mode) ==
    IF erase_mode.kind = "tuple" THEN SubSeq(erase_mode.val, 1, 3)
    ELSE IF erase_mode.val = "white" THEN <<255, 255, 255>>
    ELSE <<0, 0, 0>>

\* C11 as stated: in 'white', 'black' and custom-colour mode (3-tuple or
\* 4-tuple) every pixel whose mask value is > 128 gets the replacement colour
\* with alpha 255.
C11_ReplacementIsOpaque ==
    PaintCall =>
        \A p \in Pix(arg.image.w, arg.image.h) :
            arg.mask.px[p] > 128 =>
                ret.px[p] = Append(NamedRGB(call[1]), 255)

\* C11 amended: 'white', 'black' and a 3-tuple write the colour with alpha
\* 255; a 4-tuple writes its own four samples, so the alpha after the call is
\* the fourth sample of the tuple.
C11_ReplacementColourWritten ==
    PaintCall =>
        \A p \in Pix(arg.image.w, arg.image.h) :
            arg.mask.px[p] > 128 =>
                ret.px[p] =
                    Append(NamedRGB(call[1]),
                           IF call[1].kind = "tuple" /\ Len(call[1].val) = 4
                           THEN call[1].val[4] ELSE 255)

\* a 4-tuple with alpha 40 painted over a selected pixel
C11_Witness ==
    /\ PaintCall
    /\ call[1].kind = "tuple"
    /\ Len(call[1].val) = 4
    /\ \E p \in Pix(arg.image.w, arg.image.h) :
          arg.mask.px[p] > 128 /\ ret.px[p] = <<10, 20, 30, 40>>

----------------------------------------------------------------------------
(* AdvancedSelectionTools: mask algebra *)

Max2(a, b) == IF a >= b THEN a ELSE b
Min2(a, b) == IF a <= b THEN a ELSE b
SetMax(S) == CHOOSE v \in S : \A u \in S : u <= v
SetMin(S) == CHOOSE v \in S : \A u \in S : v <= u

\* the in-image part of the (2k+1) x (2k+1) window centred on p
Window(m, p, k) ==
    {q \in Pix(m.w, m.h) :
        /\ q[1] >= p[1] - k /\ q[1] <= p[1] + k
        /\ q[2] >= p[2] - k /\ q[2] <= p[2] + k}

\* cv2.dilate(mask_array, np.ones((2k+1, 2k+1)), iterations=1): the default
\* border value never wins the maximum
dilate(m, k) ==
    Arr("L", m.w, m.h,
        [p \in Pix(m.w, m.h) |-> SetMax({m.px[q] : q \in Window(m, p, k)})])

\* cv2.erode(mask_array, np.ones((2k+1, 2k+1)), iterations=1): the default
\* border value never wins the minimum
erode(m, k) ==
    Arr("L", m.w, m.h,
        [p \in Pix(m.w, m.h) |-> SetMin({m.px[q] : q \in Window(m, p, k)})])

grow_selection(m, pixels) == dilate(m, pixels)

\* mutant: shrink_selection calls cv2.dilate like grow_selection
shrink_selection_dilates(m, pixels) == dilate(m, pixels)

\* mutant: the erosion of a mask whose outside counts as unselected
shrink_selection_zero_border(m, pixels) ==
    Arr("L", m.w, m.h,
        [p \in Pix(m.w, m.h) |->
            IF Cardinality(Window(m, p, pixels))
                  = (2 * pixels + 1) * (2 * pixels + 1)
            THEN erode(m, pixels).px[p] ELSE 0])

shrink_selection(m, pixels) == erode(m, pixels)

\* inverted = 255 - mask_array
invert_selection(m) ==
    Arr("L", m.w, m.h, [p \in Pix(m.w, m.h) |-> (255 - m.px[p]) % 256])

\* one sample of combine_selections on uint8 operands
CombineSample(a, b, operation) ==
    IF operation = "union" THEN Max2(a, b)
    ELSE IF operation = "intersection" THEN Min2(a, b)
    ELSE IF operation = "difference" THEN (IF a > b THEN U8Sub(a, b) ELSE 0)
    ELSE IF operation = "symmetric_difference" THEN U8Sub(a, b)
    ELSE a

\* mutant: 'intersection' takes np.maximum like 'union'
combine_selections_max(mask1, mask2, operation) ==
    Arr("L", mask1.w, mask1.h,
        [p \in Pix(mask1.w, mask1.h) |->
            IF operation = "intersection"
            THEN Max2(mask1.px[p], mask2.px[p])
            ELSE CombineSample(mask1.px[p], mask2.px[p], operation)])

\* the operands are broadcast against each other by every known operation;
\* an unknown operation returns array1 and never looks at array2
combine_selections(mask1, mask2, operation) ==
    LET w == BroadcastDim(mask1.w, mask2.w)
        h == BroadcastDim(mask1.h, mask2.h)
    IN  IF operation \notin
               {"union", "intersection", "difference", "symmetric_difference"}
        THEN Arr("L", mask1.w, mask1.h, mask1.px)
        ELSE IF w = 0 \/ h = 0
        THEN Raised
        ELSE Arr("L", w, h,
                 [p \in Pix(w, h) |->
                     CombineSample(BroadcastAt(mask1, p), BroadcastAt(mask2, p),
                                   operation)])

----------------------------------------------------------------------------
(* A session of invert and combine calls on a pair of masks: each call is   *)
(* applied to the mask the previous call returned.                          *)

\* width of the one-row masks
CW == 2
\* number of calls in a session
MaxOps == 2

CombineValues == {0, 1, 128, 255}
CombineMasks == {Arr("L", CW, 1, f) : f \in [Pix(CW, 1) -> CombineValues]}
Operations == {"union", "intersection", "difference", "symmetric_difference", "xor"}

InitCombine ==
    /\ SelectIdle
    /\ arg \in [mask1 : CombineMasks, mask2 : CombineMasks]
    /\ call = <<>>
    /\ ret = arg.mask1

InvertCall ==
    /\ Len(call) < MaxOps
    /\ call' = Append(call, "invert")
    /\ ret' = invert_selection(ret)
    /\ UNCHANGED arg
    /\ UNCHANGED selectVars

CombineCall(operation) ==
    /\ Len(call) < MaxOps
    /\ call' = Append(call, operation)
    /\ ret' = combine_selections(ret, arg.mask2, operation)
    /\ UNCHANGED arg
    /\ UNCHANGED selectVars

NextCombine == InvertCall \/ \E o \in Operations : CombineCall(o)

SpecCombine == InitCombine /\ [][NextCombine]_vars

Abs(n) == IF n < 0 THEN -n ELSE n
ZeroMask(m) == ImageNewL(m.w, m.h, 0)
FullMask(m) == ImageNewL(m.w, m.h, 255)

\* C6: 'difference' is max(m1 - m2, 0) and 'symmetric_difference' is
\* |m1 - m2| at every pixel (the statement of the claim, which the code
\* violates).
C6_DifferenceAndSymmetricDifference ==
    /\ call = <<"difference">> =>
          \A p \in Pix(ret.w, ret.h) :
              ret.px[p] = Max2(arg.mask1.px[p] - arg.mask2.px[p], 0)
    /\ call = <<"symmetric_difference">> =>
          \A p \in Pix(ret.w, ret.h) :
              ret.px[p] = Abs(arg.mask1.px[p] - arg.mask2.px[p])

\* C7: invert twice is the identity; union with the zero mask and
\* intersection with the full mask are the identity; union and intersection
\* are commutative.
C7_MaskAlgebraLaws ==
    /\ call = <<"invert", "invert">> => ret = arg.mask1
    /\ (call = <<"union">> /\ arg.mask2 = ZeroMask(arg.mask1)) => ret = arg.mask1
    /\ (call = <<"intersection">> /\ arg.mask2 = FullMask(arg.mask1)) =>
          ret = arg.mask1
    /\ call = <<"union">> =>
          ret = combine_selections(arg.mask2, arg.mask1, "union")
    /\ call = <<"intersection">> =>
          ret = combine_selections(arg.mask2, arg.mask1, "intersection")

C7_Witness ==
    /\ call = <<"intersection">>
    /\ arg.mask2 = FullMask(arg.mask1)
    /\ arg.mask1.px[<<0, 0>>] = 128
    /\ arg.mask1.px[<<1, 0>>] = 1
    /\ ret = arg.mask1

----------------------------------------------------------------------------
(* A session of grow, shrink and invert calls on one mask                   *)

\* mask width and height
MW == 3
MH == 2
\* largest 'pixels' argument
MaxPixels == 1

MorphValues == {0, 255}
MorphMasks == {Arr("L", MW, MH, f) : f \in [Pix(MW, MH) -> MorphValues]}

InitMorph ==
    /\ SelectIdle
    /\ arg \in [mask : MorphMasks]
    /\ call = <<>>
    /\ ret = arg.mask

GrowCall(pixels) ==
    /\ Len(call) < MaxOps
    /\ call' = Append(call, <<"grow", pixels>>)
    /\ ret' = grow_selection(ret, pixels)
    /\ UNCHANGED arg
    /\ UNCHANGED selectVars

ShrinkCall(pixels) ==
    /\ Len(call) < MaxOps
    /\ call' = Append(call, <<"shrink", pixels>>)
    /\ ret' = shrink_selection(ret, pixels)
    /\ UNCHANGED arg
    /\ UNCHANGED selectVars

InvertMorphCall ==
    /\ Len(call) < MaxOps
    /\ call' = Append(call, <<"invert", 0>>)
    /\ ret' = invert_selection(ret)
    /\ UNCHANGED arg
    /\ UNCHANGED selectVars

NextMorph ==
    \/ \E k \in 0 .. MaxPixels : GrowCall(k)
    \/ \E k \in 0 .. MaxPixels : ShrinkCall(k)
    \/ InvertMorphCall

SpecMorph == InitMorph /\ [][NextMorph]_vars

\* C8: shrink by k then grow by k never exceeds grow(m, k), nor m itself,
\* at any pixel.
C8_ShrinkThenGrowInsideEnvelope ==
    \A k \in 0 .. MaxPixels :
        call = << <<"shrink", k>>, <<"grow", k>> >> =>
            \A p \in Pix(ret.w, ret.h) :
                /\ ret.px[p] <= grow_selection(arg.mask, k).px[p]
                /\ ret.px[p] <= arg.mask.px[p]

\* a session where shrinking removed border pixels that growing restores
\* only in part
C8_Witness ==
    /\ call = << <<"shrink", 1>>, <<"grow", 1>> >>
    /\ arg.mask.px[<<0, 0>>] = 255
    /\ arg.mask.px[<<2, 1>>] = 0
    /\ ret.px[<<0, 0>>] = 255
    /\ \E p \in Pix(ret.w, ret.h) : ret.px[p] < arg.mask.px[p]

\* C9: shrink is the dual of grow, shrink(m, k) = invert(grow(invert(m), k)),
\* and positions outside the image neither deselect under shrink nor select
\* under grow: each is the minimum, the maximum, of the in-image window.
C9_ShrinkIsDualOfGrow ==
    \A k \in 0 .. MaxPixels :
        /\ call = << <<"shrink", k>> >> =>
              /\ ret = invert_selection(
                          grow_selection(invert_selection(arg.mask), k))
              /\ \A p \in Pix(ret.w, ret.h) :
                    (\A q \in Window(arg.mask, p, k) : arg.mask.px[q] = 255)
                        => ret.px[p] = 255
        /\ call = << <<"grow", k>> >> =>
              \A p \in Pix(ret.w, ret.h) :
                    (\A q \in Window(arg.mask, p, k) : arg.mask.px[q] = 0)
                        => ret.px[p] = 0

\* a fully selected mask stays fully selected under shrink by 1
C9_Witness ==
    /\ call = << <<"shrink", 1>> >>
    /\ arg.mask = FullMask(arg.mask)
    /\ ret = FullMask(arg.mask)

----------------------------------------------------------------------------
(* SmartCrop.  cv2.Canny is a library call: its output, an edge map with    *)
(* samples 0 and 255 of the size of the image, is an input of the model.    *)

\* golden_ratio = 1.618 and the 0.8 of the centre crop, as integer ratios
GoldenRatioMilli == 1618
CenterKeepTenths == 8

RECURSIVE SumPx(_, _)
\* np.sum over a set of positions (widened, no wrap-around)
SumPx(f, S) ==
    IF S = {} THEN 0
    ELSE LET p == CHOOSE q \in S : TRUE IN f[p] + SumPx(f, S \ {p})

\* Image.crop(box), box = (left, upper, right, lower) inside the image
crop(img, box) ==
    Arr(img.mode, box[3] - box[1], box[4] - box[2],
        [p \in Pix(box[3] - box[1], box[4] - box[2]) |->
            img.px[<<p[1] + box[1], p[2] + box[2]>>]])

\* for x in [0, third_w]: for y in [0, third_h]
ThirdsAnchors(width, height) ==
    << <<0, 0>>, <<0, height \div 3>>,
       <<width \div 3, 0>>, <<width \div 3, height \div 3>> >>

\* crop_w = min(width - x, third_w * 2), and the same for the height
ThirdsExtent(length, at) == Min2(length - at, (length \div 3) * 2)

\* if crop_w > width // 2 and crop_h > height // 2
ThirdsAdmitted(width, height, x, y) ==
    /\ ThirdsExtent(width, x) > width \div 2
    /\ ThirdsExtent(height, y) > height \div 2

\* score = np.sum(edges[y:y+crop_h, x:x+crop_w])
ThirdsScore(edges, x, y) ==
    SumPx(edges.px,
          {p \in Pix(edges.w, edges.h) :
              /\ x <= p[1] /\ p[1] < x + ThirdsExtent(edges.w, x)
              /\ y <= p[2] /\ p[2] < y + ThirdsExtent(edges.h, y)})

\* mutant: a window that equals the best score replaces it
BeatsOrTies(score, best_score) == score >= best_score

\* if score > best_score
Beats(score, best_score) == score > best_score

RECURSIVE ThirdsScan(_, _, _, _)
\* the two loops of _rule_of_thirds_crop from the i-th anchor on
ThirdsScan(edges, i, best_score, best_crop) ==
    LET anchors == ThirdsAnchors(edges.w, edges.h)
    IN  IF i > Len(anchors) THEN best_crop
        ELSE LET x == anchors[i][1]
                 y == anchors[i][2]
                 score == ThirdsScore(edges, x, y)
             IN  IF /\ ThirdsAdmitted(edges.w, edges.h, x, y)
                    /\ Beats(score, best_score)
                 THEN ThirdsScan(edges, i + 1, score,
                                 <<x, y, x + ThirdsExtent(edges.w, x),
                                   y + ThirdsExtent(edges.h, y)>>)
                 ELSE ThirdsScan(edges, i + 1, best_score, best_crop)

\* best_score = 0; best_crop = (0, 0, width, height)
ThirdsBox(edges) == ThirdsScan(edges, 1, 0, <<0, 0, edges.w, edges.h>>)

_rule_of_thirds_crop(img, edges) == crop(img, ThirdsBox(edges))

GoldenBox(width, height) ==
    IF width * 1000 > GoldenRatioMilli * height
    THEN LET new_width == (height * GoldenRatioMilli) \div 1000
             crop_x == (width - new_width) \div 2
         IN  <<crop_x, 0, crop_x + new_width, height>>
    ELSE LET new_height == (width * 1000) \div GoldenRatioMilli
             crop_y == (height - new_height) \div 2
         IN  <<0, crop_y, width, crop_y + new_height>>

_golden_ratio_crop(img) == crop(img, GoldenBox(img.w, img.h))

\* mutant: the window starts at the full margin, not at half of it
CenterBoxCorner(width, height) ==
    LET crop_width == (width * CenterKeepTenths) \div 10
        crop_height == (height * CenterKeepTenths) \div 10
    IN  <<width - crop_width, height - crop_height, width, height>>

CenterBox(width, height) ==
    LET crop_width == (width * CenterKeepTenths) \div 10
        crop_height == (height * CenterKeepTenths) \div 10
        crop_x == (width - crop_width) \div 2
        crop_y == (height - crop_height) \div 2
    IN  <<crop_x, crop_y, crop_x + crop_width, crop_y + crop_height>>

_center_weighted_crop(img) == crop(img, CenterBox(img.w, img.h))

\* mutant: an unknown rule falls back to the centre crop
auto_crop_falls_back(img, edges, composition_rule) ==
    IF composition_rule = "rule_of_thirds"
    THEN _rule_of_thirds_crop(img, edges)
    ELSE IF composition_rule = "golden_ratio"
    THEN _golden_ratio_crop(img)
    ELSE _center_weighted_crop(img)

auto_crop(img, edges, composition_rule) ==
    IF composition_rule = "rule_of_thirds"
    THEN _rule_of_thirds_crop(img, edges)
    ELSE IF composition_rule = "golden_ratio"
    THEN _golden_ratio_crop(img)
    ELSE IF composition_rule = "center_weighted"
    THEN _center_weighted_crop(img)
    ELSE img

EdgeValues == {0, 255}
EdgeMaps(w, h) == {Arr("L", w, h, f) : f \in [Pix(w, h) -> EdgeValues]}
CompositionRules ==
    {"rule_of_thirds", "golden_ratio", "center_weighted", "thirds"}

----------------------------------------------------------------------------
(* One call of erase_selection, combine_selections or auto_crop, on         *)
(* arguments of any shape and with any value of the string parameter.       *)

\* masks of one sample, one column too many, or one row too many
OddMasks(w) ==
    UNION {{ImageNewL(1, 1, v), ImageNewL(w + 1, 1, v), ImageNewL(w, 2, v)} :
              v \in EraseMaskValues}

InitCalls ==
    /\ SelectIdle
    /\ arg \in [fn : {"erase_selection"}, image : EraseImages,
                mask : EraseMasks \cup OddMasks(EW)]
          \cup [fn : {"combine_selections"},
                mask1 : CombineMasks \cup {ImageNewL(CW, 2, v) : v \in CombineValues},
                mask2 : CombineMasks \cup OddMasks(CW)]
          \cup [fn : {"auto_crop"}, image : EraseImages, edges : EdgeMaps(EW, 1)]
    /\ call = <<>>
    /\ ret = <<>>

EraseAnyCall(erase_mode) ==
    /\ call = <<>>
    /\ arg.fn = "erase_selection"
    /\ call' = <<arg.fn, erase_mode>>
    /\ ret' = erase_selection(arg.image, arg.mask, erase_mode)
    /\ UNCHANGED arg
    /\ UNCHANGED selectVars

CombineAnyCall(operation) ==
    /\ call = <<>>
    /\ arg.fn = "combine_selections"
    /\ call' = <<arg.fn, operation>>
    /\ ret' = combine_selections(arg.mask1, arg.mask2, operation)
    /\ UNCHANGED arg
    /\ UNCHANGED selectVars

AutoCropCall(composition_rule) ==
    /\ call = <<>>
    /\ arg.fn = "auto_crop"
    /\ call' = <<arg.fn, composition_rule>>
    /\ ret' = auto_crop(arg.image, arg.edges, composition_rule)
    /\ UNCHANGED arg
    /\ UNCHANGED selectVars

NextCalls ==
    \/ \E m \in EraseModes : EraseAnyCall(m)
    \/ \E o \in Operations : CombineAnyCall(o)
    \/ \E r \in CompositionRules : AutoCropCall(r)

SpecCalls == InitCalls /\ [][NextCalls]_vars

Called(fn) == call # <<>> /\ call[1] = fn

\* C12: an unrecognised string parameter never raises and changes nothing:
\* combine_selections returns mask1, erase_selection returns the image
\* promoted to RGBA, auto_crop returns the image at its original size.
C12_UnknownEnumIsNoOp ==
    /\ (Called("combine_selections") /\ call[2] \notin
            {"union", "intersection", "difference", "symmetric_difference"}) =>
          /\ ~IsRaised(ret)
          /\ ret = arg.mask1
    /\ (Called("erase_selection") /\
            ~(\/ call[2].kind = "str" /\
                    call[2].val \in {"transparent", "white", "black"}
              \/ call[2].kind = "tuple" /\ Len(call[2].val) \in {3, 4})) =>
          /\ ~IsRaised(ret)
          /\ ret.mode = "RGBA"
          /\ ret.w = arg.image.w /\ ret.h = arg.image.h
          /\ \A p \in Pix(arg.image.w, arg.image.h) :
                ret.px[p] = IF arg.image.mode = "RGBA" THEN arg.image.px[p]
                            ELSE Append(arg.image.px[p], 255)
    /\ (Called("auto_crop") /\ call[2] \notin
            {"rule_of_thirds", "golden_ratio", "center_weighted"}) =>
          /\ ~IsRaised(ret)
          /\ ret = arg.image

\* auto_crop('thirds') hands back an image that the centre crop would cut
C12_Witness ==
    /\ Called("auto_crop")
    /\ call[2] = "thirds"
    /\ ret = arg.image
    /\ _center_weighted_crop(arg.image) # arg.image

\* C13 as stated: a mask whose width or height differs from the image's, or
\* two masks of different dimensions, always end in an error and never in a
\* result.
C13_MismatchAlwaysFails ==
    /\ (Called("erase_selection") /\
            (arg.mask.w # arg.image.w \/ arg.mask.h # arg.image.h)) =>
          IsRaised(ret)
    /\ (Called("combine_selections") /\
            (arg.mask1.w # arg.mask2.w \/ arg.mask1.h # arg.mask2.h)) =>
          IsRaised(ret)

----------------------------------------------------------------------------
(* smart_background_removal.  cv2.Canny and sklearn's KMeans are library    *)
(* calls: the edge map and the label of each colour are inputs of the       *)
(* model.  KMeans.fit_predict labels a sample by its nearest centre, so the *)
(* label is a function of the colour, and it raises ValueError when there   *)
(* are fewer samples than clusters.                                         *)

\* the weights 0.4, 0.4, 0.2 of line 191, in tenths
EdgeWeightTenths == 4
ClusterWeightTenths == 4
CornerWeightTenths == 2
\* KMeans(n_clusters=3) and np.percentile(color_diff, 70)
NClusters == 3
CornerPercentile == 70

IsUniform(img) ==
    \A p, q \in Pix(img.w, img.h) : img.px[p] = img.px[q]

RECURSIVE Outside(_, _)
\* the zero samples joined to the frame of the array by zero samples
Outside(m, S) ==
    LET T == S \cup {q \in Pix(m.w, m.h) :
                        m.px[q] = 0 /\ \E p \in S : Adjacent4(p, q)}
    IN  IF T = S THEN S ELSE Outside(m, T)

\* ndimage.binary_fill_holes(m).astype(np.uint8)
binary_fill_holes(m) ==
    LET frame == {p \in Pix(m.w, m.h) :
                     /\ m.px[p] = 0
                     /\ \/ p[1] = 0 \/ p[1] = m.w - 1
                        \/ p[2] = 0 \/ p[2] = m.h - 1}
        open == Outside(m, frame)
    IN  Arr("L", m.w, m.h,
            [p \in Pix(m.w, m.h) |-> IF p \in open THEN 0 ELSE 1])

\* labels maps a colour to the label fit_predict gave its samples;
\* max(set(corner_labels), key=corner_labels.count) takes the most frequent
\* corner label, the smallest one among equally frequent ones
_color_clustering_background_detection(img, labels) ==
    LET corners == << <<0, 0>>, <<img.w - 1, 0>>,
                      <<0, img.h - 1>>, <<img.w - 1, img.h - 1>> >>
        corner_labels == [i \in 1 .. 4 |-> labels[img.px[corners[i]]]]
        count(l) == Cardinality({i \in 1 .. 4 : corner_labels[i] = l})
        background_label ==
            CHOOSE l \in {corner_labels[i] : i \in 1 .. 4} :
                \A k \in {corner_labels[i] : i \in 1 .. 4} :
                    count(k) < count(l) \/ (count(k) = count(l) /\ l <= k)
    IN  IF img.w * img.h < NClusters THEN Raised
        ELSE Arr("L", img.w, img.h,
                 [p \in Pix(img.w, img.h) |->
                     IF labels[img.px[p]] # background_label THEN 1 ELSE 0])

\* 16 times the squared distance of the colour at p from the mean of the
\* four corner colours
CornerDistance16(img, p) ==
    LET s(ch) == img.px[<<0, 0>>][ch] + img.px[<<img.w - 1, 0>>][ch]
                    + img.px[<<0, img.h - 1>>][ch]
                    + img.px[<<img.w - 1, img.h - 1>>][ch]
        d(ch) == 4 * img.px[p][ch] - s(ch)
    IN  d(1) * d(1) + d(2) * d(2) + d(3) * d(3)

\* the order statistic below the virtual index q/100 * (n - 1) of
\* np.percentile, counted from 0
OrderStatistic(f, S, q) ==
    LET idx == (q * (Cardinality(S) - 1)) \div 100
    IN  CHOOSE v \in {f[p] : p \in S} :
            /\ Cardinality({p \in S : f[p] < v}) <= idx
            /\ idx < Cardinality({p \in S : f[p] <= v})

\* color_diff > threshold: the threshold interpolates between two adjacent
\* order statistics and stays below the upper one when they differ, so a
\* sample exceeds it exactly when it exceeds the lower one
_corner_based_background_detection(img) ==
    LET color_diff == [p \in Pix(img.w, img.h) |-> CornerDistance16(img, p)]
        lower == OrderStatistic(color_diff, Pix(img.w, img.h), CornerPercentile)
    IN  Arr("L", img.w, img.h,
            [p \in Pix(img.w, img.h) |-> IF color_diff[p] > lower THEN 1 ELSE 0])

\* mutant: the weighted sum is scaled by 256
FuseSampleScale256(e, c, k) ==
    (((EdgeWeightTenths * e + ClusterWeightTenths * c + CornerWeightTenths * k)
        * 256) \div 10) % 256

\* one sample of (edge * 0.4 + cluster * 0.4 + corner * 0.2) * 255 after
\* astype(np.uint8): the binary products of the eight bit patterns are 0,
\* 51.0, 102.0, 153.00000000000003, 204.0 and 255.0, so the truncation of
\* the exact decimal value is the truncation of the float
FuseSample(e, c, k) ==
    (((EdgeWeightTenths * e + ClusterWeightTenths * c + CornerWeightTenths * k)
        * 255) \div 10) % 256

RECURSIVE BorderInterpolate(_, _)
\* cv::borderInterpolate for BORDER_REFLECT_101
BorderInterpolate(i, n) ==
    IF n = 1 THEN 0
    ELSE IF i < 0 THEN BorderInterpolate(-i, n)
    ELSE IF i >= n THEN BorderInterpolate(2 * (n - 1) - i, n)
    ELSE i

\* the kernel of cv2.GaussianBlur(mask, (5, 5), 2) in 8-bit fixed point:
\* <<outer, inner, centre>>, 2 * 39 + 2 * 57 + 64 = 256
SmoothKernel == <<39, 57, 64>>

\* the row pass of the 5-tap kernel, in 1/256 units
BlurRows5(m, kernel) ==
    Arr("L", m.w, m.h,
        [p \in Pix(m.w, m.h) |->
            kernel[1] * m.px[<<BorderInterpolate(p[1] - 2, m.w), p[2]>>]
            + kernel[2] * m.px[<<BorderInterpolate(p[1] - 1, m.w), p[2]>>]
            + kernel[3] * m.px[p]
            + kernel[2] * m.px[<<BorderInterpolate(p[1] + 1, m.w), p[2]>>]
            + kernel[1] * m.px[<<BorderInterpolate(p[1] + 2, m.w), p[2]>>]])

\* the column pass over the row pass, rounded to the nearest integer
BlurCols5(r, kernel) ==
    Arr("L", r.w, r.h,
        [p \in Pix(r.w, r.h) |->
            (kernel[1] * r.px[<<p[1], BorderInterpolate(p[2] - 2, r.h)>>]
             + kernel[2] * r.px[<<p[1], BorderInterpolate(p[2] - 1, r.h)>>]
             + kernel[3] * r.px[p]
             + kernel[2] * r.px[<<p[1], BorderInterpolate(p[2] + 1, r.h)>>]
             + kernel[1] * r.px[<<p[1], BorderInterpolate(p[2] + 2, r.h)>>]
             + 32768) \div 65536])

\* result_array[:, :, 3] = combined_mask
WithAlpha(img, m) ==
    LET rgba == convert(img, "RGBA")
    IN  Arr("RGBA", rgba.w, rgba.h,
            [p \in Pix(rgba.w, rgba.h) |-> [rgba.px[p] EXCEPT ![4] = m.px[p]]])

\* largest width and height of the images handed to smart_background_removal
BW == 3
BH == 2

BackgroundPalette == {Black, Dark, <<200, 100, 50>>}
\* images whose columns are of one colour each, of every size up to BW x BH
BackgroundImages ==
    UNION {{Arr("RGB", w, h, [p \in Pix(w, h) |-> col[p[1]]]) :
               col \in [0 .. w - 1 -> BackgroundPalette]} :
              w \in 1 .. BW, h \in 1 .. BH}
\* Canny finds nothing in a uniform image; otherwise any of these edge maps
EdgeOutcomes(img) ==
    IF IsUniform(img) THEN {ImageNewL(img.w, img.h, 0)}
    ELSE {Arr("L", img.w, img.h,
              [p \in Pix(img.w, img.h) |-> IF p[1] < i THEN 255 ELSE 0]) :
             i \in 0 .. img.w}
         \cup {Arr("L", img.w, img.h,
                   [p \in Pix(img.w, img.h) |-> IF p = q THEN 255 ELSE 0]) :
                  q \in Pix(img.w, img.h)}
LabelOutcomes == [BackgroundPalette -> 0 .. NClusters - 1]

InitBackground ==
    /\ image \in BackgroundImages
    /\ self = MagicEraserInit
    /\ pc = "idle"
    /\ args = NoArgs
    /\ locals = NoLocals
    /\ stack = <<>>
    /\ visited = <<>>
    /\ mask = NoArr
    /\ raw = NoArr
    /\ aa = NoArr
    /\ sel = NoArr
    /\ out = NoArr
    /\ PureIdle

NoVotes == [edge_mask |-> NoArr, cluster_mask |-> NoArr, corner_mask |-> NoArr]

\* lines 215-221: the output of cv2.Canny on the blurred grey image
CannyStep ==
    /\ pc = "idle"
    /\ \E edges \in EdgeOutcomes(image) : mask' = edges
    /\ pc' = "dilate_1"
    /\ UNCHANGED <<image, self, args, locals, stack, visited, raw, aa, sel, out>>
    /\ UNCHANGED pureVars

\* cv2.dilate(edges, np.ones((5, 5)), iterations=2), one iteration
EdgeDilateStep ==
    /\ pc \in {"dilate_1", "dilate_2"}
    /\ mask' = dilate(mask, 2)
    /\ pc' = IF pc = "dilate_1" THEN "dilate_2" ELSE "fill_holes"
    /\ UNCHANGED <<image, self, args, locals, stack, visited, raw, aa, sel, out>>
    /\ UNCHANGED pureVars

\* line 228, and edge_mask of line 182
FillHolesStep ==
    /\ pc = "fill_holes"
    /\ locals' = [NoVotes EXCEPT !.edge_mask = binary_fill_holes(mask)]
    /\ pc' = "cluster"
    /\ UNCHANGED <<image, self, args, stack, visited, mask, raw, aa, sel, out>>
    /\ UNCHANGED pureVars

\* line 185: KMeans raises on fewer than three samples and the exception
\* leaves smart_background_removal
ClusterStep ==
    /\ pc = "cluster"
    /\ \E labels \in LabelOutcomes :
          LET cluster_mask ==
                  _color_clustering_background_detection(image, labels)
          IN  IF IsRaised(cluster_mask)
              THEN /\ pc' = "raised"
                   /\ UNCHANGED locals
              ELSE /\ pc' = "corner"
                   /\ locals' = [locals EXCEPT !.cluster_mask = cluster_mask]
    /\ UNCHANGED <<image, self, args, stack, visited, mask, raw, aa, sel, out>>
    /\ UNCHANGED pureVars

\* line 188
CornerStep ==
    /\ pc = "corner"
    /\ locals' = [locals EXCEPT
                     !.corner_mask = _corner_based_background_detection(image)]
    /\ pc' = "fuse"
    /\ UNCHANGED <<image, self, args, stack, visited, mask, raw, aa, sel, out>>
    /\ UNCHANGED pureVars

\* lines 191-192
FuseStep ==
    /\ pc = "fuse"
    /\ raw' = Arr("L", image.w, image.h,
                  [p \in Pix(image.w, image.h) |->
                      FuseSample(locals.edge_mask.px[p],
                                 locals.cluster_mask.px[p],
                                 locals.corner_mask.px[p])])
    /\ mask' = raw'
    /\ pc' = "close"
    /\ UNCHANGED <<image, self, args, locals, stack, visited, aa, sel, out>>
    /\ UNCHANGED pureVars

\* cv2.morphologyEx(combined_mask, cv2.MORPH_CLOSE, np.ones((3, 3)))
CloseStep ==
    /\ pc = "close"
    /\ mask' = erode(dilate(mask, 1), 1)
    /\ pc' = "open"
    /\ UNCHANGED <<image, self, args, locals, stack, visited, raw, aa, sel, out>>
    /\ UNCHANGED pureVars

\* cv2.morphologyEx(combined_mask, cv2.MORPH_OPEN, np.ones((3, 3)))
OpenStep ==
    /\ pc = "open"
    /\ mask' = dilate(erode(mask, 1), 1)
    /\ pc' = "blur_rows"
    /\ UNCHANGED <<image, self, args, locals, stack, visited, raw, aa, sel, out>>
    /\ UNCHANGED pureVars

\* cv2.GaussianBlur(combined_mask, (5, 5), 2), the rows
SmoothRowsStep ==
    /\ pc = "blur_rows"
    /\ aa' = BlurRows5(mask, SmoothKernel)
    /\ pc' = "blur_cols"
    /\ UNCHANGED <<image, self, args, locals, stack, visited, mask, raw, sel, out>>
    /\ UNCHANGED pureVars

\* cv2.GaussianBlur(combined_mask, (5, 5), 2), the columns
SmoothColsStep ==
    /\ pc = "blur_cols"
    /\ mask' = BlurCols5(aa, SmoothKernel)
    /\ pc' = "alpha"
    /\ UNCHANGED <<image, self, args, locals, stack, visited, raw, aa, sel, out>>
    /\ UNCHANGED pureVars

\* lines 203-209
BackgroundReturn ==
    /\ pc = "alpha"
    /\ out' = WithAlpha(image, mask)
    /\ pc' = "done"
    /\ UNCHANGED <<image, self, args, locals, stack, visited, mask, raw, aa, sel>>
    /\ UNCHANGED pureVars

NextBackground ==
    \/ CannyStep \/ EdgeDilateStep \/ FillHolesStep \/ ClusterStep \/ CornerStep
    \/ FuseStep \/ CloseStep \/ OpenStep
    \/ SmoothRowsStep \/ SmoothColsStep \/ BackgroundReturn

SpecBackground == InitBackground /\ [][NextBackground]_vars

Fused == pc \in {"close", "open", "blur_rows", "blur_cols", "alpha", "done"}

\* C14: before the morphological cleanup the fused mask is the 0..255
\* scaling of 0.4 * edge + 0.4 * cluster + 0.2 * corner over bits: one of 0,
\* 51, 102, 153, 204, 255; 255 exactly where all three say foreground, 0
\* exactly where all three say background, and a lone edge or cluster vote
\* weighs more than a lone corner vote.
C14_FusedMaskLevels ==
    Fused =>
        \A p \in Pix(image.w, image.h) :
            LET e == locals.edge_mask.px[p]
                c == locals.cluster_mask.px[p]
                k == locals.corner_mask.px[p]
            IN  /\ {e, c, k} \subseteq {0, 1}
                /\ raw.px[p] = 102 * e + 102 * c + 51 * k
                /\ raw.px[p] \in {0, 51, 102, 153, 204, 255}
                /\ raw.px[p] = 255 <=> (e = 1 /\ c = 1 /\ k = 1)
                /\ raw.px[p] = 0 <=> (e = 0 /\ c = 0 /\ k = 0)
                /\ (e + c = 1 /\ k = 0) => raw.px[p] > 51

\* a fused mask with a unanimous pixel next to one the corner vote misses
C14_Witness ==
    /\ Fused
    /\ \E p, q \in Pix(image.w, image.h) :
          raw.px[p] = 255 /\ raw.px[q] = 204

\* C15 as stated: on a uniform image of any size the call returns an image
\* whose alpha is one constant, 0 or 255.
C15_UniformImageConstantAlpha ==
    IsUniform(image) =>
        /\ pc # "raised"
        /\ pc = "done" =>
              \/ \A p \in Pix(image.w, image.h) : out.px[p][4] = 0
              \/ \A p \in Pix(image.w, image.h) : out.px[p][4] = 255

----------------------------------------------------------------------------
(* ContentAwareFill.  cv2.inpaint is a library call: it keeps the samples   *)
(* where the mask is zero and computes the others, and what it computes at  *)
(* a non-zero mask sample is an input of the model.                         *)

\* mask_array = np.array(mask.convert('L')) > 128
PatchThreshold == 128

InFill(m, p) == m.px[p] > PatchThreshold

\* cv2.cvtColor RGB2BGR and BGR2RGB: the channels in reverse order
cvtColor(img) ==
    Arr(img.mode, img.w, img.h,
        [p \in Pix(img.w, img.h) |-> <<img.px[p][3], img.px[p][2], img.px[p][1]>>])

\* cv2.inpaint(img_cv, mask_array, 3, flags), fill being what the library
\* computes for the samples to inpaint
inpaint(img_cv, mask_array, fill) ==
    Arr(img_cv.mode, img_cv.w, img_cv.h,
        [p \in Pix(img_cv.w, img_cv.h) |->
            IF mask_array.px[p] # 0 THEN fill ELSE img_cv.px[p]])

fill_selection(img, m, method, fill) ==
    LET img_array == convert(img, "RGB")
        mask_array == convert(m, "L")
        img_cv == cvtColor(img_array)
        result == IF method \in {"telea", "ns"}
                  THEN inpaint(img_cv, mask_array, fill)
                  ELSE img_cv
        result_rgb == cvtColor(result)
    IN  Arr("RGB", result_rgb.w, result_rgb.h, result_rgb.px)

RECURSIVE FillPixelsUnmaskedFrom(_, _)
FillPixelsUnmaskedFrom(m, i) ==
    IF i >= m.w * m.h THEN <<>>
    ELSE LET p == <<i % m.w, i \div m.w>>
         IN  (IF InFill(m, p) THEN <<>> ELSE <<p>>)
                 \o FillPixelsUnmaskedFrom(m, i + 1)

\* mutant: the pixels outside the mask are the ones to fill
FillPixelsUnmasked(m) == FillPixelsUnmaskedFrom(m, 0)

RECURSIVE FillPixelsFrom(_, _)
FillPixelsFrom(m, i) ==
    IF i >= m.w * m.h THEN <<>>
    ELSE LET p == <<i % m.w, i \div m.w>>
         IN  (IF InFill(m, p) THEN <<p>> ELSE <<>>) \o FillPixelsFrom(m, i + 1)

\* zip(*np.where(mask_array)): the masked positions row by row
FillPixels(m) == FillPixelsFrom(m, 0)

\* target_patch.shape == candidate.shape: the window of the target is not
\* clipped by the frame of the image
FullWindow(img, target_pos, half_size) ==
    /\ Min2(img.w, target_pos[1] + half_size + 1)
          - Max2(0, target_pos[1] - half_size) = 2 * half_size + 1
    /\ Min2(img.h, target_pos[2] + half_size + 1)
          - Max2(0, target_pos[2] - half_size) = 2 * half_size + 1

Offsets(half_size) == (-half_size .. half_size) \X (-half_size .. half_size)

Shift(p, d) == <<p[1] + d[1], p[2] + d[2]>>

\* valid_pixels = ~target_mask, as offsets from the centre of a full window
ValidOffsets(m, target_pos, half_size) ==
    {d \in Offsets(half_size) : ~InFill(m, Shift(target_pos, d))}

\* np.sum((candidate[valid_pixels] - target_patch[valid_pixels]) ** 2): the
\* difference and the square are uint8, the sum is widened
PatchDiff(img, m, target_pos, centre, half_size) ==
    SumPx([d \in ValidOffsets(m, target_pos, half_size) |->
              color_distance_sq(img.px[Shift(centre, d)],
                                img.px[Shift(target_pos, d)])],
          ValidOffsets(m, target_pos, half_size))

\* the i-th position of the two range() loops, counted from 0
CandidateAt(img, half_size, i) ==
    <<half_size + (i % (img.w - 2 * half_size)),
      half_size + (i \div (img.w - 2 * half_size))>>

CandidateCount(img, half_size) ==
    IF img.w <= 2 * half_size \/ img.h <= 2 * half_size THEN 0
    ELSE (img.w - 2 * half_size) * (img.h - 2 * half_size)

\* mutant: candidates centred on a masked pixel are scored as well
IsScoredAnyCentre(img, m, target_pos, half_size, centre) ==
    /\ FullWindow(img, target_pos, half_size)
    /\ ValidOffsets(m, target_pos, half_size) # {}

\* a candidate that reaches the score: its centre is outside the mask, the
\* shapes agree and the target window has a pixel outside the mask
IsScored(img, m, target_pos, half_size, centre) ==
    /\ ~InFill(m, centre)
    /\ FullWindow(img, target_pos, half_size)
    /\ ValidOffsets(m, target_pos, half_size) # {}

RECURSIVE PatchScan(_, _, _, _, _, _, _)
\* the two loops of _find_best_patch from the i-th candidate on;
\* best_score None is float('inf')
PatchScan(img, m, target_pos, half_size, i, best_score, best_patch) ==
    IF i >= CandidateCount(img, half_size) THEN best_patch
    ELSE LET centre == CandidateAt(img, half_size, i)
         IN  IF ~IsScored(img, m, target_pos, half_size, centre)
             THEN PatchScan(img, m, target_pos, half_size, i + 1,
                            best_score, best_patch)
             ELSE LET diff == PatchDiff(img, m, target_pos, centre, half_size)
                  IN  IF IsNone(best_score) \/ diff < Val(best_score)
                      THEN PatchScan(img, m, target_pos, half_size, i + 1,
                                     Some(diff), Some(centre))
                      ELSE PatchScan(img, m, target_pos, half_size, i + 1,
                                     best_score, best_patch)

\* the result is None or the centre of the chosen candidate
_find_best_patch(img, m, target_pos, patch_size) ==
    PatchScan(img, m, target_pos, patch_size \div 2, 0, None, None)

\* width and height of the images handed to the fill functions
PW == 5
PH == 3

Grey == <<16, 0, 0>>
\* images whose columns are of one colour each, in the three modes
PatchImages ==
    {Arr("RGB", PW, PH, [p \in Pix(PW, PH) |-> col[p[1]]]) :
        col \in [0 .. PW - 1 -> {Black, Dark, Grey}]}
    \cup {Arr("RGBA", PW, PH, [p \in Pix(PW, PH) |-> col[p[1]]]) :
             col \in [0 .. PW - 1 -> {<<0, 0, 0, 255>>, <<16, 0, 0, 77>>}]}
    \cup {Arr("L", PW, PH, [p \in Pix(PW, PH) |-> col[p[1]]]) :
             col \in [0 .. PW - 1 -> {0, 16}]}
\* nothing selected (0 or 128 everywhere), everything selected, one pixel
\* selected, two pixels side by side selected
PatchMasks ==
    {ImageNewL(PW, PH, v) : v \in {0, PatchThreshold, 255}}
    \cup {Arr("L", PW, PH,
              [p \in Pix(PW, PH) |->
                  IF p = q \/ (two /\ p = <<q[1] + 1, q[2]>>) THEN 255 ELSE 0]) :
             q \in Pix(PW, PH), two \in BOOLEAN}
PatchSizes == {1, 3}
FillMethods == {"telea", "ns", "fast"}
\* what cv2.inpaint may compute for a sample, in B, G, R order
InpaintFills == {<<9, 9, 9>>, <<0, 0, 16>>}

InitFill ==
    /\ image = NoArr
    /\ self = MagicEraserInit
    /\ pc = "idle"
    /\ args = NoArgs
    /\ locals = NoLocals
    /\ stack = <<>>
    /\ visited = <<>>
    /\ mask = NoArr
    /\ raw = NoArr
    /\ aa = NoArr
    /\ sel = NoArr
    /\ out = NoArr
    /\ arg \in [image : PatchImages, mask : PatchMasks]
    /\ call = <<>>
    /\ ret = <<>>

FillSelectionCall(method) ==
    /\ pc = "idle"
    /\ \E fill \in InpaintFills :
          ret' = fill_selection(arg.image, arg.mask, method, fill)
    /\ call' = <<"fill_selection", method>>
    /\ pc' = "done"
    /\ UNCHANGED <<image, self, args, locals, stack, visited, mask, raw, aa, sel,
                   out, arg>>

\* lines 454-461: result is a copy of the RGB array, stack the pixels to fill
PatchMatchCall(patch_size) ==
    /\ pc = "idle"
    /\ call' = <<"patch_match_fill", patch_size>>
    /\ out' = convert(arg.image, "RGB")
    /\ stack' = FillPixels(convert(arg.mask, "L"))
    /\ pc' = "fill_loop"
    /\ UNCHANGED <<image, self, args, locals, visited, mask, raw, aa, sel, arg,
                   ret>>

\* one turn of the loop of lines 463-472; visited records the target and the
\* candidate _find_best_patch returned for it
PatchFillStep ==
    /\ pc = "fill_loop"
    /\ stack # <<>>
    /\ LET img_array == convert(arg.image, "RGB")
           target_pos == Head(stack)
           best_patch == _find_best_patch(img_array, convert(arg.mask, "L"),
                                          target_pos, call[2])
       IN  /\ out' = IF IsNone(best_patch) THEN out
                     ELSE [out EXCEPT
                              !.px[target_pos] = img_array.px[Val(best_patch)]]
           /\ visited' = Append(visited, <<target_pos, best_patch>>)
    /\ stack' = Tail(stack)
    /\ UNCHANGED <<image, self, pc, args, locals, mask, raw, aa, sel, arg, call,
                   ret>>

\* return Image.fromarray(result, 'RGB')
PatchMatchReturn ==
    /\ pc = "fill_loop"
    /\ stack = <<>>
    /\ ret' = Arr("RGB", out.w, out.h, out.px)
    /\ pc' = "done"
    /\ UNCHANGED <<image, self, args, locals, stack, visited, mask, raw, aa, sel,
                   out, arg, call>>

NextFill ==
    \/ \E m \in FillMethods : FillSelectionCall(m)
    \/ \E n \in PatchSizes : PatchMatchCall(n)
    \/ PatchFillStep
    \/ PatchMatchReturn

SpecFill == InitFill /\ [][NextFill]_vars

FillReturned == pc = "done" /\ call # <<>>

\* the R, G, B samples of the input at p
InputRGB(p) ==
    IF arg.image.mode = "L"
    THEN <<arg.image.px[p], arg.image.px[p], arg.image.px[p]>>
    ELSE SubSeq(arg.image.px[p], 1, 3)

C17_FillKeepsMode ==
    FillReturned =>
        /\ ret.mode = arg.image.mode
        /\ ret.w = arg.image.w /\ ret.h = arg.image.h
        /\ arg.image.mode = "RGBA" =>
              \A p \in Pix(PW, PH) : ret.px[p][4] = arg.image.px[p][4]

\* the candidates that reached the score for the i-th filled pixel
ScoredFor(i) ==
    LET img_array == convert(arg.image, "RGB")
        half_size == call[2] \div 2
    IN  {CandidateAt(img_array, half_size, k) :
            k \in {j \in 0 .. CandidateCount(img_array, half_size) - 1 :
                      IsScored(img_array, arg.mask, visited[i][1], half_size,
                               CandidateAt(img_array, half_size, j))}}

\* C18 as stated: every candidate that is scored for a target, hence the
\* chosen one, is a patch_size x patch_size patch with no pixel in the mask.
C18_ScoredPatchesOutsideMask ==
    \A i \in 1 .. Len(visited) :
        \A c \in ScoredFor(i) \cup
                    (IF IsNone(visited[i][2]) THEN {} ELSE {Val(visited[i][2])}) :
            \A d \in Offsets(call[2] \div 2) :
                /\ Shift(c, d) \in Pix(PW, PH)
                /\ arg.mask.px[Shift(c, d)] <= 128

\* the sum of squared differences over the integers
TrueSSD(target_pos, centre, half_size) ==
    LET img_array == convert(arg.image, "RGB")
    IN  SumPx([d \in ValidOffsets(arg.mask, target_pos, half_size) |->
                  EuclidSq(img_array.px[Shift(centre, d)],
                           img_array.px[Shift(target_pos, d)])],
              ValidOffsets(arg.mask, target_pos, half_size))

\* C19 as stated: the candidate chosen for a target minimises the true sum
\* of squared differences over the unmasked pixels of the target patch, and
\* the value written is the centre pixel of that candidate.
C19_ChosenMinimisesTrueSSD ==
    \A i \in 1 .. Len(visited) :
        ~IsNone(visited[i][2]) =>
            /\ \A c \in ScoredFor(i) :
                  TrueSSD(visited[i][1], Val(visited[i][2]), call[2] \div 2)
                      <= TrueSSD(visited[i][1], c, call[2] \div 2)
            /\ out.px[visited[i][1]] = InputRGB(Val(visited[i][2]))

----------------------------------------------------------------------------
(* One call of auto_crop on an image of any size up to XW x XH with any     *)
(* edge map.                                                                *)

\* largest width and height of the images handed to auto_crop
XW == 3
XH == 3

\* every pixel carries its position, so that a crop shows where it was cut
Numbered(w, h) == Arr("L", w, h, [p \in Pix(w, h) |-> p[1] + w * p[2]])

InitCrop ==
    /\ SelectIdle
    /\ arg \in UNION {[fn : {"auto_crop"}, image : {Numbered(w, h)},
                       edges : EdgeMaps(w, h)] : w \in 1 .. XW, h \in 1 .. XH}
    /\ call = <<>>
    /\ ret = <<>>

NextCrop == \E r \in CompositionRules : AutoCropCall(r)

SpecCrop == InitCrop /\ [][NextCrop]_vars

\* the windows the rule-of-thirds claim names, in scan order (x outer, y
\* inner), as boxes (left, upper, right, lower)
ThirdsWindow(i) ==
    LET x == IF i <= 2 THEN 0 ELSE arg.image.w \div 3
        y == IF i \in {1, 3} THEN 0 ELSE arg.image.h \div 3
    IN  <<x, y,
          x + Min2(arg.image.w - x, 2 * (arg.image.w \div 3)),
          y + Min2(arg.image.h - y, 2 * (arg.image.h \div 3))>>

InBox(p, box) ==
    /\ box[1] <= p[1] /\ p[1] < box[3]
    /\ box[2] <= p[2] /\ p[2] < box[4]

\* the summed edge intensity of a window
WindowSum(i) ==
    255 * Cardinality({p \in Pix(arg.image.w, arg.image.h) :
                          InBox(p, ThirdsWindow(i)) /\ arg.edges.px[p] = 255})

AdmissibleWindows ==
    {i \in 1 .. 4 :
        /\ ThirdsWindow(i)[3] - ThirdsWindow(i)[1] > arg.image.w \div 2
        /\ ThirdsWindow(i)[4] - ThirdsWindow(i)[2] > arg.image.h \div 2}

\* the first window in scan order among those of the largest sum
FirstBestWindow ==
    CHOOSE i \in AdmissibleWindows :
        \A j \in AdmissibleWindows :
            WindowSum(j) < WindowSum(i) \/ (WindowSum(j) = WindowSum(i) /\ i <= j)

\* the part of the image inside a box
CutOut(box) ==
    /\ ret.w = box[3] - box[1]
    /\ ret.h = box[4] - box[2]
    /\ \A p \in Pix(ret.w, ret.h) :
          ret.px[p] = arg.image.px[<<p[1] + box[1], p[2] + box[2]>>]

ThirdsCalled == call = <<"auto_crop", "rule_of_thirds">>

\* C20 as stated: 'rule_of_thirds' returns the admissible window of the
\* largest summed edge intensity, the first one in scan order on ties, also
\* when every window's sum is 0.
C20_ThirdsReturnsFirstBestWindow ==
    (ThirdsCalled /\ AdmissibleWindows # {}) =>
        CutOut(ThirdsWindow(FirstBestWindow))

\* C20 amended: when some admissible window has a positive sum the result is
\* the window of the largest sum, the first one in scan order on ties; when
\* every admissible window's sum is 0, or no window is admissible, the whole
\* image is returned.
C20_ThirdsBestWindowOrWholeImage ==
    ThirdsCalled =>
        IF \E i \in AdmissibleWindows : WindowSum(i) > 0
        THEN CutOut(ThirdsWindow(FirstBestWindow))
        ELSE CutOut(<<0, 0, arg.image.w, arg.image.h>>)

\* a 3x3 image without edges has four admissible 2x2 windows and is
\* returned whole
C20_Witness ==
    /\ ThirdsCalled
    /\ arg.image.w = 3 /\ arg.image.h = 3
    /\ Cardinality(AdmissibleWindows) = 4
    /\ \A p \in Pix(3, 3) : arg.edges.px[p] = 0
    /\ ret.w = 3 /\ ret.h = 3

----------------------------------------------------------------------------
(* SmartCrop.smart_resize_crop.  The function reads image.size only, so an  *)
(* image is its size here; the quotients are Python floats (IEEE doubles).  *)

\* the triples (a, target_width, target_height), all up to 16, whose double
\* a / (target_width / target_height) falls just below its integer value,
\* e.g. 9 / (9 / 7) = 6.999999999999999
FloatShortQuotients == {<<9, 9, 7>>, <<9, 9, 14>>}
\* the same for the double a * (target_width / target_height),
\* e.g. 11 * (15 / 11) = 14.999999999999998
FloatShortProducts == {<<11, 15, 11>>, <<13, 15, 13>>}

\* int(a / target_ratio)
TruncQuotient(a, target_size) ==
    ((a * target_size[2]) \div target_size[1])
        - (IF <<a, target_size[1], target_size[2]>> \in FloatShortQuotients
           THEN 1 ELSE 0)

\* int(a * target_ratio)
TruncProduct(a, target_size) ==
    ((a * target_size[1]) \div target_size[2])
        - (IF <<a, target_size[1], target_size[2]>> \in FloatShortProducts
           THEN 1 ELSE 0)

\* current_ratio > target_ratio: two quotients of integers up to 16 that
\* differ as rationals differ as doubles
WiderThanTarget(size, target_size) ==
    size[1] * target_size[2] > size[2] * target_size[1]

\* mutant: the start of the window is capped from above only
ClampStartUpperOnly(room, start) == Min2(room, start)

\* max(0, min(room, start))
ClampStart(room, start) == Max2(0, Min2(room, start))

\* lines 625-640: the crop box
ResizeCropBox(size, target_size, focus_point) ==
    LET focus == IF IsNone(focus_point)
                 THEN <<size[1] \div 2, size[2] \div 2>>
                 ELSE Val(focus_point)
    IN  IF WiderThanTarget(size, target_size)
        THEN LET new_width == TruncProduct(size[2], target_size)
                 crop_x == ClampStart(size[1] - new_width,
                                      focus[1] - new_width \div 2)
             IN  <<crop_x, 0, crop_x + new_width, size[2]>>
        ELSE LET new_height == TruncQuotient(size[1], target_size)
                 crop_y == ClampStart(size[2] - new_height,
                                      focus[2] - new_height \div 2)
             IN  <<0, crop_y, size[1], crop_y + new_height>>

\* largest width and height of the image and of the target
RS == 9

ResizeSizes == (1 .. RS) \X (1 .. RS)
\* no focus point, or one at, next to or outside the frame of the image
FocusPoints(size) ==
    {None} \cup {Some(<<size[1] \div 2 + d, size[2] \div 2 + d>>) :
                    d \in {-RS, -1, 0, 1, RS}}

InitResize ==
    /\ SelectIdle
    /\ arg \in [size : ResizeSizes, target_size : ResizeSizes]
    /\ call = <<>>
    /\ ret = <<>>

\* cropped = image.crop(crop_box); cropped.resize(target_size, LANCZOS)
\* gives an image of the target size; what Pillow does with an empty
\* cropped image is left open (raised TRUE or FALSE)
ResizeCropCall(focus_point) ==
    /\ call = <<>>
    /\ call' = <<"smart_resize_crop", focus_point>>
    /\ LET crop_box == ResizeCropBox(arg.size, arg.target_size, focus_point)
           empty == crop_box[3] = crop_box[1] \/ crop_box[4] = crop_box[2]
       IN  \E raised \in (IF empty THEN BOOLEAN ELSE {FALSE}) :
               ret' = [crop_box |-> crop_box, raised |-> raised,
                       size |-> IF raised THEN <<0, 0>> ELSE arg.target_size]
    /\ UNCHANGED arg
    /\ UNCHANGED selectVars

NextResize == \E f \in FocusPoints(arg.size) : ResizeCropCall(f)

SpecResize == InitResize /\ [][NextResize]_vars

ResizeCalled == call # <<>>
CropWidth == ret.crop_box[3] - ret.crop_box[1]
CropHeight == ret.crop_box[4] - ret.crop_box[2]

\* C21 as stated: the width is cropped when the image is wider than the
\* target, otherwise the height, the other axis stays whole, the window has
\* the aspect of the target exactly and the result has the target size; a
\* 200x200 image with target (100, 50) and focus (100, 100) is cut to 200x100
\* at y = 50.
C21_CropHasTargetAspect ==
    /\ ResizeCropBox(<<200, 200>>, <<100, 50>>, Some(<<100, 100>>))
          = <<0, 50, 200, 150>>
    /\ ResizeCalled =>
          /\ IF arg.size[1] * arg.target_size[2] > arg.size[2] * arg.target_size[1]
             THEN CropHeight = arg.size[2]
             ELSE CropWidth = arg.size[1]
          /\ CropWidth * arg.target_size[2] = CropHeight * arg.target_size[1]
          /\ ret.size = arg.target_size

\* C22: the crop window lies inside the image for every size, target and
\* focus point, and a window centred on the focus point that fits inside the
\* image is used where it is.
C22_CropWindowInsideImage ==
    ResizeCalled =>
        LET focus == IF IsNone(call[2])
                     THEN <<arg.size[1] \div 2, arg.size[2] \div 2>>
                     ELSE Val(call[2])
            left == focus[1] - CropWidth \div 2
            top == focus[2] - CropHeight \div 2
        IN  /\ 0 <= ret.crop_box[1] /\ ret.crop_box[3] <= arg.size[1]
            /\ 0 <= ret.crop_box[2] /\ ret.crop_box[4] <= arg.size[2]
            /\ ret.crop_box[1] <= ret.crop_box[3]
            /\ ret.crop_box[2] <= ret.crop_box[4]
            /\ (CropWidth < arg.size[1] /\ 0 <= left
                   /\ left + CropWidth <= arg.size[1]) =>
                  ret.crop_box[1] = left
            /\ (CropHeight < arg.size[2] /\ 0 <= top
                   /\ top + CropHeight <= arg.size[2]) =>
                  ret.crop_box[2] = top

\* a focus point left of the image: the window is pushed to the left edge
C22_Witness ==
    /\ ResizeCalled
    /\ ~IsNone(call[2])
    /\ Val(call[2])[1] < 0
    /\ 0 < CropWidth /\ CropWidth < arg.size[1]
    /\ ret.crop_box[1] = 0

----------------------------------------------------------------------------
(* auto_crop on larger frames.  The golden-ratio and centre crops read the  *)
(* size of the image only, so the edge map is empty here.                   *)

\* largest width and height of the frame
FS == 10

InitFrame ==
    /\ SelectIdle
    /\ arg \in {[fn |-> "auto_crop", image |-> Numbered(w, h),
                 edges |-> Arr("L", w, h, [p \in Pix(w, h) |-> 0])] :
                   w \in 1 .. FS, h \in 1 .. FS}
    /\ call = <<>>
    /\ ret = <<>>

NextFrame == \E r \in CompositionRules : AutoCropCall(r)

SpecFrame == InitFrame /\ [][NextFrame]_vars

\* floor(0.8 * n), from its definition
Floor80(n) == CHOOSE k \in 0 .. n : 10 * k <= 8 * n /\ 8 * n < 10 * (k + 1)

CenterCalled == call = <<"auto_crop", "center_weighted">>

\* C23: the centre crop of a W x H image is the window of size
\* floor(0.8 W) x floor(0.8 H) at ((W - cw) // 2, (H - ch) // 2); it lies
\* inside the image and its opposite margins differ by at most 1; a 300x300
\* image is cut to 240x240 at (30, 30).
C23_CenterCropIsCentral80 ==
    /\ CenterBox(300, 300) = <<30, 30, 270, 270>>
    /\ CenterCalled =>
          LET cw == Floor80(arg.image.w)
              ch == Floor80(arg.image.h)
              left == (arg.image.w - cw) \div 2
              top == (arg.image.h - ch) \div 2
              right == arg.image.w - (left + cw)
              bottom == arg.image.h - (top + ch)
          IN  /\ ret = Arr(arg.image.mode, cw, ch,
                           [p \in Pix(cw, ch) |->
                               arg.image.px[<<p[1] + left, p[2] + top>>]])
              /\ left >= 0 /\ top >= 0 /\ right >= 0 /\ bottom >= 0
              /\ Abs(left - right) <= 1
              /\ Abs(top - bottom) <= 1

\* a 10x9 image: an 8x7 window one pixel in from the left and the top
C23_Witness ==
    /\ CenterCalled
    /\ arg.image.w = 10 /\ arg.image.h = 9
    /\ ret.w = 8 /\ ret.h = 7
    /\ ret.px[<<0, 0>>] = arg.image.px[<<1, 1>>]

\* the crop window the rule computes on the image
RuleBox ==
    IF call[2] = "golden_ratio" THEN GoldenBox(arg.image.w, arg.image.h)
    ELSE IF call[2] = "center_weighted" THEN CenterBox(arg.image.w, arg.image.h)
    ELSE ThirdsBox(arg.edges)

\* C24 as stated: when a crop rule computes a window of zero width or zero
\* height, auto_crop returns the input image unchanged.
C24_ZeroWindowReturnsInput ==
    (/\ call # <<>>
     /\ call[2] \in {"rule_of_thirds", "golden_ratio", "center_weighted"}
     /\ (RuleBox[3] = RuleBox[1] \/ RuleBox[4] = RuleBox[2]))
        => ret = arg.image

----------------------------------------------------------------------------
(* _flood_fill_select on its own, with a record of what the loop did:       *)
(* call.tests[p] counts the colour tests of pixel p (line 89), call.marks[p]*)
(* the assignments mask[y, x] = 255 and call.pushed the stack entries.      *)

\* largest width and height of the flooded image
FW == 3
FH == 2

\* Dark where one of a set of columns crosses one of a set of rows
FloodImages ==
    UNION {{Arr("RGB", w, h,
                [p \in Pix(w, h) |->
                    IF p[1] \in C /\ p[2] \in R THEN Dark ELSE Black]) :
               C \in SUBSET (0 .. w - 1), R \in SUBSET (0 .. h - 1)} :
           w \in 1 .. FW, h \in 1 .. FH}
\* Dark is within DefaultTolerance of Black, not within SmallTol
FloodTolerances == {SmallTol, DefaultTolerance}

InitFlood ==
    /\ image \in FloodImages
    /\ self = MagicEraserInit
    /\ pc = "fill"
    /\ args = NoArgs
    /\ \E target_color \in Palette, tolerance \in FloodTolerances :
          locals = [tolerance |-> tolerance, contiguous |-> TRUE,
                    target_color |-> target_color]
    /\ \E start_point \in Pix(image.w, image.h) \cup {<<-1, 0>>} :
          stack = <<start_point>>
    /\ visited = [p \in Pix(image.w, image.h) |-> FALSE]
    /\ mask = ImageNewL(image.w, image.h, 0)
    /\ raw = NoArr /\ aa = NoArr /\ sel = NoArr /\ out = NoArr
    /\ arg = <<>>
    /\ call = [tests |-> [p \in Pix(image.w, image.h) |-> 0],
               marks |-> [p \in Pix(image.w, image.h) |-> 0],
               pushed |-> 1]
    /\ ret = <<>>

\* one iteration of the while loop, lines 82-96
FloodLoopStep ==
    /\ pc = "fill"
    /\ stack # <<>>
    /\ LET top == stack[Len(stack)]
           rest == SubSeq(stack, 1, Len(stack) - 1)
           x == top[1]
           y == top[2]
       IN  IF x < 0 \/ x >= image.w \/ y < 0 \/ y >= image.h
           THEN /\ stack' = rest
                /\ UNCHANGED <<visited, mask, call>>
           ELSE IF visited[top]
           THEN /\ stack' = rest
                /\ UNCHANGED <<visited, mask, call>>
           ELSE IF similar(image.px[top], locals.target_color, locals.tolerance)
           THEN /\ visited' = [visited EXCEPT ![top] = TRUE]
                /\ mask' = [mask EXCEPT !.px[top] = 255]
                /\ stack' = rest \o Neighbours(x, y)
                /\ call' = [call EXCEPT !.tests[top] = @ + 1,
                                        !.marks[top] = @ + 1,
                                        !.pushed = @ + Len(Neighbours(x, y))]
           ELSE /\ stack' = rest
                /\ call' = [call EXCEPT !.tests[top] = @ + 1]
                /\ UNCHANGED <<visited, mask>>
    /\ UNCHANGED <<image, self, pc, args, locals, raw, aa, sel, out, arg, ret>>

\* the stack is empty: return mask
FloodLoopReturn ==
    /\ pc = "fill"
    /\ stack = <<>>
    /\ raw' = mask
    /\ pc' = "done"
    /\ UNCHANGED <<image, self, args, locals, stack, visited, mask, aa, sel, out>>
    /\ UNCHANGED pureVars

NextFlood == FloodLoopStep \/ FloodLoopReturn

SpecFlood == InitFlood /\ [][NextFlood]_vars

\* the interpreter keeps running the loop
SpecFloodFair == SpecFlood /\ WF_vars(NextFlood)

\* C25 as stated: during the flood fill every pixel is popped and
\* colour-tested against the target at most once, whether it is selected or
\* rejected.
C25_EachPixelTestedOnce ==
    \A p \in Pix(image.w, image.h) : call.tests[p] <= 1

\* C26: the flood fill terminates: every pixel is marked at most once, at
\* most 1 + 4 * W * H entries are ever pushed, and the stack empties and the
\* mask is returned.
C26_FloodFillTerminates ==
    /\ [](/\ \A p \in Pix(image.w, image.h) : call.marks[p] <= 1
          /\ call.pushed <= 1 + 4 * image.w * image.h)
    /\ <>(pc = "done" /\ stack = <<>>)

\* a uniform image of the largest size is selected whole: 1 + 4 * W * H
\* entries were pushed and all of them popped
C26_Witness ==
    /\ pc = "done"
    /\ image.w = FW /\ image.h = FH
    /\ \A p \in Pix(image.w, image.h) : call.marks[p] = 1
    /\ call.pushed = 1 + 4 * image.w * image.h

----------------------------------------------------------------------------
(* patch_match_fill: which targets are repainted, and with what             *)

PatchMatchCalled == call # <<>> /\ call[1] = "patch_match_fill"

\* the unmasked pixels at least patch_size // 2 from every edge of the image
CandidateCentres ==
    {c \in Pix(arg.image.w, arg.image.h) :
        /\ call[2] \div 2 <= c[1] /\ c[1] < arg.image.w - call[2] \div 2
        /\ call[2] \div 2 <= c[2] /\ c[2] < arg.image.h - call[2] \div 2
        /\ arg.mask.px[c] <= 128}

\* the unmasked pixels of the image within patch_size // 2 of the target
UnmaskedNear(target_pos) ==
    {p \in Pix(arg.image.w, arg.image.h) :
        /\ Abs(p[1] - target_pos[1]) <= call[2] \div 2
        /\ Abs(p[2] - target_pos[2]) <= call[2] \div 2
        /\ arg.mask.px[p] <= 128}

\* C27 as stated: a masked pixel is repainted with the centre value of the
\* chosen candidate whenever a candidate exists and the neighbourhood of the
\* pixel holds an unmasked pixel, wherever the pixel lies in the image.
C27_EveryTargetWithCandidateRepainted ==
    PatchMatchCalled =>
        \A i \in 1 .. Len(visited) :
            (CandidateCentres # {} /\ UnmaskedNear(visited[i][1]) # {}) =>
                /\ ~IsNone(visited[i][2])
                /\ out.px[visited[i][1]] = InputRGB(Val(visited[i][2]))

\* C28: patch_match_fill leaves every pixel with mask value <= 128 as it
\* was, and every value it writes is the input colour of the centre of the
\* chosen candidate, a pixel that is unmasked in the input; the returned
\* image is the array so written.
C28_WritesOnlyUnmaskedColours ==
    PatchMatchCalled =>
        /\ \A p \in Pix(arg.image.w, arg.image.h) :
              arg.mask.px[p] <= 128 => out.px[p] = InputRGB(p)
        /\ \A i \in 1 .. Len(visited) :
              IF IsNone(visited[i][2])
              THEN out.px[visited[i][1]] = InputRGB(visited[i][1])
              ELSE /\ arg.mask.px[visited[i][1]] > 128
                   /\ arg.mask.px[Val(visited[i][2])] <= 128
                   /\ out.px[visited[i][1]] = InputRGB(Val(visited[i][2]))
        /\ pc = "done" => ret = Arr("RGB", out.w, out.h, out.px)

\* a masked pixel was given a colour it did not have
C28_Witness ==
    /\ PatchMatchCalled
    /\ pc = "done"
    /\ \E i \in 1 .. Len(visited) :
          /\ ~IsNone(visited[i][2])
          /\ ret.px[visited[i][1]] # InputRGB(visited[i][1])

----------------------------------------------------------------------------
(* patch_match_fill with the masked pixels taken in any order: the body of  *)
(* the loop of lines 463-472 applied to one target at a time.               *)

\* mutant: result = img_array, the search reads the array being repainted
SearchSourceAliased(img_array, result) == result

\* result = img_array.copy() (line 459): the search and the copied centre
\* read img_array, which the writes to result do not reach
SearchSource(img_array, result) == img_array

\* lines 465-472 for one target
FillOne(result, img_array, mask_array, target_pos, patch_size) ==
    LET source == SearchSource(img_array, result)
        best_patch == _find_best_patch(source, mask_array, target_pos, patch_size)
    IN  IF IsNone(best_patch) THEN result
        ELSE [result EXCEPT !.px[target_pos] = source.px[Val(best_patch)]]

RECURSIVE FillAll(_, _, _, _, _)
\* the loop over a list of targets
FillAll(result, img_array, mask_array, targets, patch_size) ==
    IF targets = <<>> THEN result
    ELSE FillAll(FillOne(result, img_array, mask_array, Head(targets), patch_size),
                 img_array, mask_array, Tail(targets), patch_size)

\* width and height of the images filled in any order
OW == 6
OH == 3

OrderImages ==
    {Arr("RGB", OW, OH, [p \in Pix(OW, OH) |-> col[p[1]]]) :
        col \in [0 .. OW - 1 -> {Black, Dark}]}
\* two or three pixels side by side in the second row are selected
OrderMasks ==
    {Arr("L", OW, OH,
         [p \in Pix(OW, OH) |->
             IF p[2] = 1 /\ x <= p[1] /\ p[1] < x + n THEN 255 ELSE 0]) :
        x \in 0 .. OW - 2, n \in {2, 3}}

InitAnyOrder ==
    /\ image = NoArr
    /\ self = MagicEraserInit
    /\ pc = "idle"
    /\ args = NoArgs
    /\ locals = NoLocals
    /\ stack = <<>>
    /\ visited = <<>>
    /\ mask = NoArr
    /\ raw = NoArr
    /\ aa = NoArr
    /\ sel = NoArr
    /\ out = NoArr
    /\ arg \in [image : OrderImages, mask : OrderMasks]
    /\ call = <<>>
    /\ ret = <<>>

\* lines 454-461: stack holds the pixels still to fill
AnyOrderCall(patch_size) ==
    /\ pc = "idle"
    /\ call' = <<"patch_match_fill", patch_size>>
    /\ out' = convert(arg.image, "RGB")
    /\ stack' = FillPixels(convert(arg.mask, "L"))
    /\ pc' = "fill_loop"
    /\ UNCHANGED <<image, self, args, locals, visited, mask, raw, aa, sel, arg,
                   ret>>

\* one turn of the loop for any pixel still to fill; visited is the order
AnyOrderStep ==
    /\ pc = "fill_loop"
    /\ \E i \in 1 .. Len(stack) :
          /\ out' = FillOne(out, convert(arg.image, "RGB"),
                            convert(arg.mask, "L"), stack[i], call[2])
          /\ visited' = Append(visited, stack[i])
          /\ stack' = SubSeq(stack, 1, i - 1) \o SubSeq(stack, i + 1, Len(stack))
    /\ UNCHANGED <<image, self, pc, args, locals, mask, raw, aa, sel, arg, call,
                   ret>>

AnyOrderReturn ==
    /\ pc = "fill_loop"
    /\ stack = <<>>
    /\ ret' = Arr("RGB", out.w, out.h, out.px)
    /\ pc' = "done"
    /\ UNCHANGED <<image, self, args, locals, stack, visited, mask, raw, aa, sel,
                   out, arg, call>>

NextAnyOrder ==
    \/ \E n \in PatchSizes : AnyOrderCall(n)
    \/ AnyOrderStep
    \/ AnyOrderReturn

SpecAnyOrder == InitAnyOrder /\ [][NextAnyOrder]_vars

\* what the loop of the source, which takes the pixels row by row, returns
RasterResult ==
    LET img_array == convert(arg.image, "RGB")
        mask_array == convert(arg.mask, "L")
        result == FillAll(img_array, img_array, mask_array,
                          FillPixels(mask_array), call[2])
    IN  Arr("RGB", result.w, result.h, result.px)

\* C29: whatever the order in which the masked pixels are processed,
\* patch_match_fill returns the image the row-by-row order returns.
C29_FillOrderIndependent ==
    pc = "done" => ret = RasterResult

\* the pixels were taken right to left and one of them changed colour
C29_Witness ==
    /\ pc = "done"
    /\ Len(visited) >= 2
    /\ visited[1][1] > visited[2][1]
    /\ \E i \in 1 .. Len(visited) :
          ret.px[visited[i]] # arg.image.px[visited[i]]

----------------------------------------------------------------------------
(* A session: one MagicEraser, one image and one mask, and a sequence of    *)
(* calls of the core operations on them.  image and mask are the pixel data *)
(* of the two PIL objects, self the fields of the MagicEraser.              *)

RECURSIVE FloodLoop(_, _, _, _, _)
\* the while loop of _flood_fill_select; marked is the set of positions
\* where visited is True and mask is 255
FloodLoop(img_array, target_color, tolerance, pending, marked) ==
    IF pending = <<>> THEN marked
    ELSE LET top == pending[Len(pending)]
             rest == SubSeq(pending, 1, Len(pending) - 1)
         IN  IF top[1] < 0 \/ top[1] >= img_array.w
                \/ top[2] < 0 \/ top[2] >= img_array.h \/ top \in marked
             THEN FloodLoop(img_array, target_color, tolerance, rest, marked)
             ELSE IF similar(img_array.px[top], target_color, tolerance)
             THEN FloodLoop(img_array, target_color, tolerance,
                            rest \o Neighbours(top[1], top[2]),
                            marked \cup {top})
             ELSE FloodLoop(img_array, target_color, tolerance, rest, marked)

_flood_fill_select(img_array, start_point, target_color, tolerance) ==
    LET marked == FloodLoop(img_array, target_color, tolerance,
                            <<start_point>>, {})
    IN  Arr("L", img_array.w, img_array.h,
            [p \in Pix(img_array.w, img_array.h) |->
                IF p \in marked THEN 255 ELSE 0])

\* magic_select of the MagicEraser s, lines 35-66
magic_select(s, img, point, tolerance, contiguous) ==
    LET tol == EffectiveTolerance(tolerance, s)
        contig == EffectiveContiguous(contiguous, s)
        img_array == convert(img, "RGB")
    IN  IF OutOfBounds(point, img_array.w, img_array.h)
        THEN ImageNewL(img.w, img.h, 0)
        ELSE LET target_color ==
                     img_array.px[<<NpIndex(point[1], img_array.w),
                                    NpIndex(point[2], img_array.h)>>]
                 selected ==
                     IF contig
                     THEN _flood_fill_select(img_array, point, target_color, tol)
                     ELSE _global_color_select(img_array, target_color, tol)
             IN  FeatherPass(AntiAliasPass(selected, s), s)

\* only radius 0 and the 3x3 kernel of radius 1 are modelled
feather_selection(m, radius) ==
    IF radius <= 0 THEN m ELSE GaussianBlur(m, FeatherKernel)

\* patch_match_fill, lines 454-474
patch_match_fill(img, m, patch_size) ==
    LET img_array == convert(img, "RGB")
        mask_array == convert(m, "L")
        result == FillAll(img_array, img_array, mask_array,
                          FillPixels(mask_array), patch_size)
    IN  Arr("RGB", result.w, result.h, result.px)

\* mutant: the array is a view of the pixel data of the image, so a store
\* into the array is a store into the image
AfterStoreShared(img, array) == array

\* img_array = np.array(image) copies the pixel data: the image is as it was
\* after the stores into the array
AfterStore(img, array) == img

\* width and height of the image and the mask of a session
SW == 3
SH == 2
\* the number of calls of a session
SessionCalls == 2

Orange == <<200, 100, 50>>
\* the columns left of i Black, the others Orange; opaque and half
\* transparent pixels in RGBA mode
SessionImages ==
    {Arr("RGB", SW, SH, [p \in Pix(SW, SH) |-> IF p[1] < i THEN Black ELSE Orange]) :
        i \in {0, 1}}
    \cup {Arr("RGBA", SW, SH,
              [p \in Pix(SW, SH) |->
                  IF p[1] < i THEN <<0, 0, 0, 255>> ELSE <<200, 100, 50, 77>>]) :
             i \in {0, 1}}
SessionMasks ==
    {Arr("L", SW, SH, [p \in Pix(SW, SH) |-> IF p[1] < i THEN 255 ELSE 0]) :
        i \in {1, SW}}
\* the fields as constructed, or as set by the controls of the panel
SessionErasers ==
    {MagicEraserInit,
     [tolerance |-> SmallTol, contiguous |-> FALSE, anti_alias |-> FALSE,
      feather_radius |-> 0]}
\* combined_mask of smart_background_removal (lines 182-200) is a function
\* of the pixels of the image: one of these for the image of the session
SessionAlphas ==
    {Arr("L", SW, SH, [p \in Pix(SW, SH) |-> IF p[1] < i THEN v ELSE 0]) :
        i \in {1, SW}, v \in {204, 255}}
SessionPoints == {<<0, 0>>, <<SW - 1, SH - 1>>, <<-1, 0>>}
SessionModes ==
    {Transparent, [kind |-> "str", val |-> "white"],
     [kind |-> "tuple", val |-> <<10, 20, 30>>]}

InitSession ==
    /\ image \in SessionImages
    /\ mask \in SessionMasks
    /\ self \in SessionErasers
    /\ pc = "session"
    /\ args = NoArgs
    /\ locals = [calls |-> 0]
    /\ stack = <<>>
    /\ visited = <<>>
    /\ raw = NoArr /\ aa = NoArr /\ sel = NoArr /\ out = NoArr
    /\ \E alpha \in SessionAlphas :
          arg = [image |-> image, mask |-> mask, self |-> self, alpha |-> alpha]
    /\ call = <<>>
    /\ ret = <<>>

\* a call returns: what it returned, and the pixel data of the image after it
SessionReturn(descr, result, image_after) ==
    /\ pc = "session"
    /\ locals.calls < SessionCalls
    /\ locals' = [calls |-> locals.calls + 1]
    /\ call' = descr
    /\ ret' = result
    /\ image' = image_after
    /\ UNCHANGED <<self, mask, pc, args, stack, visited, raw, aa, sel, out, arg>>

\* the arrays magic_select writes (mask, visited) are made by np.zeros
SessionMagicSelect(point, tolerance, contiguous) ==
    SessionReturn(<<"magic_select", point, tolerance, contiguous>>,
                  magic_select(self, image, point, tolerance, contiguous),
                  image)

\* lines 143-170: an image that is not RGBA is converted to a new image; the
\* stores go into img_array = np.array(image)
SessionErase(erase_mode) ==
    LET result == erase_selection(image, mask, erase_mode)
    IN  SessionReturn(<<"erase_selection", erase_mode>>, result,
                      IF image.mode = "RGBA" THEN AfterStore(image, result)
                      ELSE image)

\* lines 203-209: the alpha plane of result_array = np.array(image) is stored
SessionBackground ==
    LET result == WithAlpha(image, arg.alpha)
    IN  SessionReturn(<<"smart_background_removal">>, result,
                      IF image.mode = "RGBA" THEN AfterStore(image, result)
                      ELSE image)

SessionGrow(pixels) ==
    SessionReturn(<<"grow_selection", pixels>>, grow_selection(mask, pixels), image)

SessionShrink(pixels) ==
    SessionReturn(<<"shrink_selection", pixels>>, shrink_selection(mask, pixels),
                  image)

SessionFeather(radius) ==
    SessionReturn(<<"feather_selection", radius>>, feather_selection(mask, radius),
                  image)

SessionInvert ==
    SessionReturn(<<"invert_selection">>, invert_selection(mask), image)

SessionCombine(operation) ==
    SessionReturn(<<"combine_selections", operation>>,
                  combine_selections(mask, invert_selection(mask), operation),
                  image)

\* image.convert('RGB') is a new image, and result a copy of its array
SessionPatchMatch(patch_size) ==
    SessionReturn(<<"patch_match_fill", patch_size>>,
                  patch_match_fill(image, mask, patch_size), image)

NextSession ==
    \/ \E point \in SessionPoints, tolerance \in {None, Some(SmallTol)},
          contiguous \in {None, Some(TRUE)} :
          SessionMagicSelect(point, tolerance, contiguous)
    \/ \E erase_mode \in SessionModes : SessionErase(erase_mode)
    \/ SessionBackground
    \/ SessionGrow(1)
    \/ SessionShrink(1)
    \/ \E radius \in {0, 1} : SessionFeather(radius)
    \/ SessionInvert
    \/ \E operation \in Operations : SessionCombine(operation)
    \/ \E patch_size \in PatchSizes : SessionPatchMatch(patch_size)

SpecSession == InitSession /\ [][NextSession]_vars

====
